---- MODULE Spec2Model ----
(***************************************************************************)
(* Lightning Lens for Salesforce: the background service worker            *)
(* (src/src/background/index.ts), its log store (src/src/background/db.ts) *)
(* and the page-scope Apex injector (src/public/inject.js).                *)
(***************************************************************************)
EXTENDS Integers, Sequences, FiniteSets, TLC

----------------------------------------------------------------------------
(* Bounds of the model *)

\* messages being handled at a time in the router specification
MaxTasks == 1
\* concurrent initializeTabState calls in the session-cache specification
MaxCalls == 1
\* chrome.debugger.attach / detach callbacks in flight per tab
MaxCb == 2
\* chrome.storage.onChanged notifications not yet delivered
MaxChanges == 1
\* actions in an Aura batch; also the save-then-trim chains running at a time
MaxBatch == 3
\* network requests the debugger reports at a time
MaxReqs == 1
\* Network.getResponseBody commands in flight
MaxFetch == 1
\* the latest time Date.now() returns during a run
MaxTime == 4
\* invocations of the wrapped function in progress at a time
MaxInvocations == 2
MaxInits == 2
MaxRelays == 2
\* objects of the page that findPaths can reach, and entries of one object
MaxObjects == 3
MaxKeys == 2

Max2(a, b) == IF a > b THEN a ELSE b

\* the tabs that exist during a run; sender.tab is undefined for NoTab
Tabs == {1}
NoTab == 0

----------------------------------------------------------------------------
(* URLs: scheme, host labels and path segments *)

NoUrl == [scheme |-> "", host |-> <<>>, path |-> <<>>]
RecordId == "001xx000003DGb2AAG"
UrlLightningRecord ==
  [scheme |-> "https", host |-> <<"acme", "lightning", "force", "com">>,
   path |-> <<"lightning", "r", "Account", RecordId, "view">>]
UrlMyDomainHome ==
  [scheme |-> "https", host |-> <<"acme", "my", "salesforce", "com">>,
   path |-> <<"lightning", "page", "home">>]
UrlBareForce ==
  [scheme |-> "https", host |-> <<"force", "com">>, path |-> <<>>]
UrlOther ==
  [scheme |-> "https", host |-> <<"example", "com">>,
   path |-> <<"lightning", "r", "Account", "42", "view">>]
Urls == {NoUrl, UrlLightningRecord, UrlMyDomainHome, UrlOther}

\* /https?:\/\/[a-zA-Z0-9-.]+\.(force|salesforce|visualforce)\.com/ on the
\* scheme and host: some label i >= 2 is one of the three names and is
\* followed by "com" (at least one character and a dot precede it)
IsSalesforceUrl(u) ==
  /\ u.scheme \in {"http", "https"}
  /\ \E i \in 2..(Len(u.host) - 1) :
       /\ u.host[i] \in {"force", "salesforce", "visualforce"}
       /\ u.host[i + 1] = "com"

\* new URL(tabUrl).origin.replace(".lightning.force.com", ".my.salesforce.com"):
\* the first occurrence of the three labels, preceded by a dot, is replaced
LightningAt(h, i) ==
  /\ i >= 2 /\ i + 2 <= Len(h)
  /\ h[i] = "lightning" /\ h[i + 1] = "force" /\ h[i + 2] = "com"
InstanceUrl(u) ==
  LET h == u.host
      hits == {i \in 1..Len(h) : LightningAt(h, i)}
  IN IF hits = {} THEN [scheme |-> u.scheme, host |-> h]
     ELSE LET i == CHOOSE k \in hits : \A j \in hits : k <= j
          IN [scheme |-> u.scheme,
              host |-> [k \in 1..Len(h) |->
                          IF k = i THEN "my"
                          ELSE IF k = i + 1 THEN "salesforce"
                          ELSE h[k]]]

\* segments accepted by [a-zA-Z0-9]{15,18}
RecordIdSegments == {RecordId}
\* /\/lightning\/r\/([a-zA-Z0-9_]+(?:__c)?)\/([a-zA-Z0-9]{15,18})\/view/
IsRecordPage(u) ==
  \E i \in 1..(Len(u.path) - 4) :
    /\ u.path[i] = "lightning" /\ u.path[i + 1] = "r"
    /\ u.path[i + 2] # ""
    /\ u.path[i + 3] \in RecordIdSegments
    /\ u.path[i + 4] = "view"

Origins == {InstanceUrl(u) : u \in {v \in Urls : IsSalesforceUrl(v)}}
NoCookie == "none"
SidValues == {"sidA", "sidB"}

SObjectNames == {"Account", "Contact"}

----------------------------------------------------------------------------
(* State *)

VARIABLES
  \* the browser: each tab "open", "removed" (closed, onRemoved not yet
  \* delivered) or "gone"; the tabs' URLs; the cookie store
  tabStatus, tabUrl, cookies,
  \* index.ts module state
  tabsState,             \* Map<number, TabState>: tab -> TabState object, 0 = no entry
  objs,                  \* the TabState objects, by object identity
  attachedDebuggerTabs,  \* Set<number>
  attachCb, detachCb,    \* chrome.debugger.attach / detach callbacks in flight
  isAuraCaptureEnabled, maxRequestEntries,
  settingsLoaded,        \* initializeSettings() has completed
  \* chrome.storage.local and its onChanged notifications not yet delivered
  storage, changes,
  \* the apiCalls object store of db.ts, and the invocations whose
  \* transaction on it has been created and not completed, oldest first
  store, transactions,
  \* invocations in progress, and completed ones until they are retired
  tasks,
  \* the kind of message the run sends
  family,
  \* the debugger channel: Map<string, RequestData>, the
  \* Network.getResponseBody commands in flight, the last value Date.now()
  \* returned, and what the last response callback was given and produced
  requestDataMap, bodyCalls, now, unwrapped,
  \* the network requests of the pages, by requestId, with their method and
  \* URL: "unsent", "sent" or
  \* "responded"
  network,
  \* the page: invocations of the wrapper that makeLogger returns
  invocations,
  \* the page: the object that holds the two Apex helpers and what else of
  \* the window matters to inject.js, the runs of init, and what the last
  \* call of a helper posted
  window, inits, lastCall,
  \* the content script: the runs of its "message" listener
  relays,
  \* chrome.cookies.get: the value the browser has read for each invocation
  \* that awaits it, and the value it read last for each tab
  cookieRead, lastRead,
  \* the page: the objects findPaths is given, each with its entries in
  \* Object.entries order, and the call of findPaths on the first of them
  graph, walk,
  \* for each tab, the time at which initializeTabState last looked its
  \* session up
  lastUsedAt

sessionVars == <<tabsState, objs, attachedDebuggerTabs, attachCb, detachCb>>
browserVars == <<tabStatus, tabUrl, cookies>>
settingsVars == <<isAuraCaptureEnabled, maxRequestEntries, settingsLoaded, storage, changes>>
captureVars == <<requestDataMap, bodyCalls, now, unwrapped, network>>
installVars == <<window, inits, lastCall>>
bridgeVars == <<relays>>
readVars == <<cookieRead, lastRead>>
walkVars == <<graph, walk>>
pageVars == <<invocations, installVars, bridgeVars, readVars, walkVars>>
timeVars == <<lastUsedAt>>
vars == <<browserVars, sessionVars, settingsVars, store, tasks, family, captureVars, transactions, pageVars, timeVars>>

TaskIds == 1..Max2(Max2(MaxTasks, MaxCalls), MaxBatch)
ObjIds == 1..(Cardinality(Tabs) + Cardinality(TaskIds) + 1)
Free == [sessionId |-> NoCookie]
Idle == [type |-> "idle"]
Undef == [k |-> "undef"]
Unset == -1
Unread == "unread"

\* let maxRequestEntries = 500
DefaultMaxRequestEntries == 500

SessionOps ==
  {"GET_RECORD", "UPDATE_RECORD", "DESCRIBE_SOBJECT", "GET_LWC_DEBUG_STATUS",
   "TOGGLE_LWC_DEBUG"}
LogOps ==
  {"GET_API_CALL", "LIST_API_CALLS", "LIST_ALL_API_CALLS", "CLEAR_API_CALLS",
   "CLEAR_ALL_API_CALLS"}
SettingsOps ==
  {"GET_MAX_REQUEST_ENTRIES", "SET_MAX_REQUEST_ENTRIES", "GET_AURA_CAPTURE_STATE",
   "SET_AURA_CAPTURE_STATE"}
\* the cases of the switch in chrome.runtime.onMessage
HandledTypes == SessionOps \cup LogOps \cup SettingsOps
\* what the content script relays and the client sends without a case for it
OtherTypes ==
  {"AURA_REQUEST_START", "AURA_REQUEST_COMPLETE", "GET_SETTINGS", "SET_SETTINGS"}
MessageTypes == HandledTypes \cup OtherTypes
Families == {"session", "log", "settings", "other"}
TypesOf(f) ==
  CASE f = "session" -> SessionOps
    [] f = "log" -> LogOps
    [] f = "settings" -> SettingsOps
    [] OTHER -> OtherTypes
TabEvents == {"onActivated", "onUpdated"}

\* ids of stored calls, and rowIds of the injector
CallIds == {1, 2}
RowIds == {3}
\* requestIds of the Network domain, the ids of Aura actions, and the values
\* crypto.randomUUID() returns
ReqIds == 1..Max2(MaxReqs, MaxTime)
ActionIds == 1..MaxBatch
Uuids == 1..(MaxBatch + 1)

PayloadsOf(type) ==
  CASE type = "UPDATE_RECORD" ->
         {Undef,
          [k |-> "update", sObjectName |-> "Account", hasId |-> FALSE],
          [k |-> "update", sObjectName |-> "Account", hasId |-> TRUE]}
    [] type = "DESCRIBE_SOBJECT" ->
         {Undef} \cup {[k |-> "describe", sObjectName |-> n] :
                         n \in SObjectNames \cup {""}}
    [] type = "TOGGLE_LWC_DEBUG" ->
         {Undef} \cup {[k |-> "toggle", enabled |-> b] : b \in BOOLEAN}
    [] type = "GET_API_CALL" ->
         {Undef} \cup {[k |-> "get", id |-> x] : x \in CallIds \cup {0}}
    [] type = "SET_MAX_REQUEST_ENTRIES" ->
         {Undef} \cup {[k |-> "max", value |-> v] : v \in 0..2}
    [] type = "SET_AURA_CAPTURE_STATE" ->
         {Undef} \cup {[k |-> "aura", enable |-> b] : b \in BOOLEAN}
    [] type = "AURA_REQUEST_START" ->
         {[k |-> "start", id |-> x, requestedAt |-> 1] : x \in RowIds}
    [] type = "AURA_REQUEST_COMPLETE" ->
         {[k |-> "complete", id |-> x, state |-> s, requestedAt |-> 1,
           respondedAt |-> 2] : x \in RowIds, s \in {"SUCCESS", "ERROR"}}
    [] OTHER -> {Undef}

\* sendResponse({status: "error", message}) and ({status: "success", payload})
ErrorResponse(text, arg) == [status |-> "error", message |-> <<text, arg>>]
SuccessResponse(payload) == [status |-> "success", payload |-> payload]

NoSessionMessage == "Salesforce session not initialized for this tab."

NewTask(type, tab, payload) ==
  [type |-> type, tab |-> tab, payload |-> payload, pc |-> "tabsGet",
   instanceUrl |-> InstanceUrl(NoUrl), state |-> 0, responses |-> <<>>,
   remote |-> 0, escaped |-> FALSE, ids |-> {},
   \* what initializeTabState found, the entry the tab had before it
   \* returned, and whether it left one
   found |-> "unknown", had |-> 0, session |-> "unknown"]

\* the objects still reachable: map entries and handler closures
Referenced(ts, tk) ==
  {ts[t] : t \in Tabs} \cup
  {tk[i].state : i \in {j \in TaskIds : tk[j] # Idle /\ tk[j].pc # "done"}}
Collect(ob, ts, tk) ==
  [o \in ObjIds |-> IF o \in Referenced(ts, tk) THEN ob[o] ELSE Free]
NewObj ==
  CHOOSE o \in ObjIds :
    /\ o \notin Referenced(tabsState, tasks)
    /\ \A p \in ObjIds : p \notin Referenced(tabsState, tasks) => o <= p

Absent == "absent"
\* the object built at index.ts:137-147
NewSession(sid, url) ==
  [sessionId |-> sid, instanceUrl |-> url,
   jsforceConnection |-> [instanceUrl |-> url, sessionId |-> sid],
   sObjectDescribeCache |-> [n \in SObjectNames |-> Absent],
   lwc |-> FALSE]

\* records of the apiCalls store (db.ts:3-13); ids are UUIDs, ordered as keys
ApiCall(id, tab, ty, at, respondedAt, req, resp, st) ==
  [id |-> id, tabId |-> tab, type |-> ty, requestedAt |-> at,
   respondedAt |-> respondedAt, duration |-> respondedAt - at,
   requestPayload |-> req, responsePayload |-> resp, status |-> st]

\* the records of s in index order: by requestedAt, then by primary key
RECURSIVE ByRequestedAt(_)
ByRequestedAt(s) ==
  IF s = {} THEN <<>>
  ELSE LET r == CHOOSE x \in s : \A y \in s :
                   \/ x.requestedAt < y.requestedAt
                   \/ (x.requestedAt = y.requestedAt /\ x.id <= y.id)
       IN <<r>> \o ByRequestedAt(s \ {r})
Reverse(q) == [i \in 1..Len(q) |-> q[Len(q) + 1 - i]]
listAllOldestFirst(s) == ByRequestedAt(s)
\* db.ts listAll: getAllFromIndex('apiCalls', 'requestedAt') reversed
listAll(s) == Reverse(ByRequestedAt(s))
\* the records of s in primary-key order
RECURSIVE ById(_)
ById(s) ==
  IF s = {} THEN <<>>
  ELSE LET r == CHOOSE x \in s : \A y \in s : x.id <= y.id
       IN <<r>> \o ById(s \ {r})
\* db.getAllFromIndex('apiCalls', 'tabId', tabId): the records under one key
\* of the index, in primary-key order
getAllFromIndex(s, tab) == ById({r \in s : r.tabId = tab})
\* calls.sort((a, b) => b.requestedAt - a.requestedAt): a stable sort, so
\* records of equal requestedAt keep the order they came in
RECURSIVE sort(_)
sort(q) ==
  IF q = <<>> THEN <<>>
  ELSE LET rest == sort(SubSeq(q, 1, Len(q) - 1))
           r == q[Len(q)]
           k == Cardinality({i \in 1..Len(rest) :
                              rest[i].requestedAt >= r.requestedAt})
       IN SubSeq(rest, 1, k) \o <<r>> \o SubSeq(rest, k + 1, Len(rest))
listUnsorted(s, tab) == getAllFromIndex(s, tab)
\* db.ts list: the tab's records sorted by requestedAt descending
list(s, tab) == sort(getAllFromIndex(s, tab))
\* db.ts get
get(s, id) == {r \in s : r.id = id}
\* db.ts clear, clearAll, deleteByIds
clear(s, tab) == {r \in s : r.tabId # tab}
clearAll(s) == {}
deleteByIds(s, ids) == {r \in s : r.id \notin ids}
\* allCalls.slice(n)
SliceFromLast(q, n) ==
  IF n - 1 >= Len(q) THEN <<>> ELSE [i \in 1..(Len(q) - n + 1) |-> q[i + n - 1]]
Slice(q, n) ==
  IF n >= Len(q) THEN <<>> ELSE [i \in 1..(Len(q) - n) |-> q[i + n]]
Ids(q) == {q[i].id : i \in 1..Len(q)}

----------------------------------------------------------------------------
(* Initial state: the service worker has just been loaded *)

StoredCalls ==
  {ApiCall(1, 1, "ApexAction", 1, 1, [id |-> 1],
           [id |-> 1, state |-> "SUCCESS"], "Success"),
   ApiCall(2, 2, "RecordUi", 2, 2, [id |-> 1],
           [id |-> 1, state |-> "ERROR"], "Error")}
\* a larger store: two more calls of tab 1, one requested in the same
\* millisecond as the first and one later than every other
ListedCalls ==
  StoredCalls \cup
  {ApiCall(3, 1, "ApexAction", 1, 2, [id |-> 2],
           [id |-> 2, state |-> "SUCCESS"], "Success"),
   ApiCall(4, 1, "RecordUi", 3, 3, [id |-> 1],
           [id |-> 1, state |-> "SUCCESS"], "Success")}

\* no entry in requestDataMap; no response callback has run
NoEntry == [type |-> "none"]
NoUnwrap == [k |-> "none"]
\* no invocation of the wrapper in a slot
NoInvocation == [pc |-> "none"]
\* a requestId the browser has not used
NoRequest == [state |-> "unsent"]
APEX_RAW_FN == "executeGlobalControllerRawResponse"
APEX_FN == "executeGlobalController"
RETRIES == 20
\* a property that is not defined
Undefined == [name |-> "undefined"]
\* the page before the framework has loaded and before inject.js runs
NoWindow ==
  [host |-> [k \in {APEX_RAW_FN, APEX_FN} |-> Undefined],
   throws |-> FALSE, __AURA_CAPTURE_ENABLED |-> "undefined"]
NoInit == [pc |-> "none", i |-> 0, attempts |-> 0, sawWrapper |-> FALSE]
NoCall == [key |-> "none", wrapped |-> FALSE, again |-> FALSE, events |-> <<>>]
\* no run of the listener of the content script in a slot
NoRelay == [pc |-> "none"]
\* the objects of the page; the first is the root findPaths is called on
Objects == 1..MaxObjects
\* the value of an entry: an object, a function whose name is the name
\* looked for, or anything else (a primitive, null, another function)
Named == MaxObjects + 1
Other == MaxObjects + 2
Values == Objects \cup {Named, Other}
SeqsUpTo(n, S) == UNION {[1..m -> S] : m \in 0..n}
Graphs == [Objects -> SeqsUpTo(MaxKeys, Values)]
\* no call of findPaths yet, on a page that has not built its objects
NoWalk == [pc |-> "unbuilt", seen |-> {}, stack |-> <<>>,
           expanded |-> [o \in Objects |-> 0], paths |-> {}]

InitPage ==
  /\ invocations = [i \in 1..MaxInvocations |-> NoInvocation]
  /\ window = NoWindow
  /\ inits = [n \in 1..MaxInits |-> NoInit]
  /\ lastCall = NoCall
  /\ relays = [n \in 1..MaxRelays |-> NoRelay]
  /\ cookieRead = [i \in TaskIds |-> Unread]
  /\ lastRead = [t \in Tabs |-> Unread]
  /\ graph = [o \in Objects |-> <<>>]
  /\ walk = NoWalk

Init ==
  /\ tabStatus = [t \in Tabs |-> "open"]
  /\ tabUrl \in [Tabs -> Urls]
  /\ cookies \in [Origins -> SidValues \cup {NoCookie}]
  /\ tabsState = [t \in Tabs |-> 0]
  /\ objs = [o \in ObjIds |-> Free]
  /\ attachedDebuggerTabs = {}
  /\ attachCb = [t \in Tabs |-> 0]
  /\ detachCb = [t \in Tabs |-> 0]
  /\ isAuraCaptureEnabled = TRUE
  /\ maxRequestEntries = DefaultMaxRequestEntries
  /\ settingsLoaded = FALSE
  /\ storage \in [aura : {{}, {FALSE}}, max : {{}, {1}}]
  /\ changes = <<>>
  /\ store \in SUBSET ListedCalls
  /\ tasks = [i \in TaskIds |-> Idle]
  /\ family \in Families
  /\ requestDataMap = [r \in ReqIds |-> NoEntry]
  /\ bodyCalls = <<>>
  /\ now = 0
  /\ unwrapped = NoUnwrap
  /\ transactions = <<>>
  /\ network = [r \in ReqIds |-> NoRequest]
  /\ InitPage
  /\ lastUsedAt = [t \in Tabs |-> 0]

----------------------------------------------------------------------------
(* The browser *)

Navigate(t, u) ==
  /\ tabStatus[t] = "open"
  /\ tabUrl[t] # u
  /\ tabUrl' = [tabUrl EXCEPT ![t] = u]
  /\ UNCHANGED <<tabStatus, cookies, sessionVars, settingsVars, store, tasks, family, captureVars, transactions, pageVars, timeVars>>

SetCookie(o, v) ==
  /\ cookies[o] # v
  /\ cookies' = [cookies EXCEPT ![o] = v]
  /\ UNCHANGED <<tabStatus, tabUrl, sessionVars, settingsVars, store, tasks, family, captureVars, transactions, pageVars, timeVars>>

CloseTab(t) ==
  /\ tabStatus[t] = "open"
  /\ tabStatus' = [tabStatus EXCEPT ![t] = "removed"]
  /\ UNCHANGED <<tabUrl, cookies, sessionVars, settingsVars, store, tasks, family, captureVars, transactions, pageVars, timeVars>>

\* time passes
Tick ==
  /\ now < MaxTime
  /\ now' = now + 1
  /\ UNCHANGED <<browserVars, sessionVars, settingsVars, store, tasks, family,
                 requestDataMap, bodyCalls, unwrapped, network, transactions,
                 pageVars, timeVars>>

----------------------------------------------------------------------------
(* Debugger attach and detach (index.ts:75-99) *)

\* attachDebugger(tabId): the number of attach callbacks in flight afterwards
attachDebugger(t, ac) ==
  IF t \in attachedDebuggerTabs THEN ac ELSE [ac EXCEPT ![t] = @ + 1]
\* detachDebugger(tabId): the number of detach callbacks in flight afterwards
detachDebugger(t, dc) ==
  IF t \notin attachedDebuggerTabs THEN dc ELSE [dc EXCEPT ![t] = @ + 1]

\* the callback of chrome.debugger.attach, with or without lastError; the
\* attach of a tab that has been closed reports lastError
AttachCallback(t, lastError) ==
  /\ attachCb[t] > 0
  /\ tabStatus[t] # "open" => lastError
  /\ attachCb' = [attachCb EXCEPT ![t] = @ - 1]
  /\ attachedDebuggerTabs' =
       IF lastError THEN attachedDebuggerTabs ELSE attachedDebuggerTabs \cup {t}
  /\ UNCHANGED <<browserVars, tabsState, objs, detachCb, settingsVars, store, tasks, family, captureVars, transactions, pageVars, timeVars>>

\* the callback of chrome.debugger.detach
DetachCallback(t) ==
  /\ detachCb[t] > 0
  /\ detachCb' = [detachCb EXCEPT ![t] = @ - 1]
  /\ attachedDebuggerTabs' = attachedDebuggerTabs \ {t}
  /\ UNCHANGED <<browserVars, tabsState, objs, attachCb, settingsVars, store, tasks, family, captureVars, transactions, pageVars, timeVars>>

\* chrome.tabs.onRemoved listener
OnRemoved(t) ==
  /\ tabStatus[t] = "removed"
  /\ detachDebugger(t, detachCb)[t] <= MaxCb
  /\ tabStatus' = [tabStatus EXCEPT ![t] = "gone"]
  /\ detachCb' = detachDebugger(t, detachCb)
  /\ tabsState' = [tabsState EXCEPT ![t] = 0]
  /\ objs' = Collect(objs, tabsState', tasks)
  /\ UNCHANGED <<tabUrl, cookies, attachedDebuggerTabs, attachCb, settingsVars, store, tasks, family, captureVars, transactions, pageVars, timeVars>>

----------------------------------------------------------------------------
(* The message router (index.ts:271-446) *)

Respond(tk, r) == [tk EXCEPT !.responses = Append(@, r)]
Done(tk) == [tk EXCEPT !.pc = "done"]
\* an exception or rejection nothing catches: the async function's promise
\* rejects and no response is sent
Escape(tk) == [tk EXCEPT !.pc = "done", !.escaped = TRUE]
\* a call on state.jsforceConnection has been issued and is awaited
CallRemote(tk, pc) == [tk EXCEPT !.pc = pc, !.remote = @ + 1]
\* an exception inside handleApiRequest's try block: the catch answers with
\* its message (index.ts:283-285)
ThrownUncaught(tk, text) == Escape(tk)
Thrown(tk, text) == Done(Respond(tk, ErrorResponse(text, "")))

\* state.sObjectDescribeCache.has(payload.sObjectName)
CacheHitNever(cache, name) == FALSE
CacheHit(cache, name) == cache[name] # Absent

\* handler(tabState) up to its first await, inside handleApiRequest's try
HandlerStart(tk, ob) ==
  LET p == tk.payload IN
  CASE tk.type = "GET_RECORD" -> [tk EXCEPT !.pc = "getTab"]
    [] tk.type = "UPDATE_RECORD" ->
         IF p = Undef THEN Thrown(tk, "TypeError")
         ELSE IF p.sObjectName = "" \/ ~p.hasId
              THEN Thrown(tk, "Invalid payload for update.")
              ELSE CallRemote(tk, "remote")
    [] tk.type = "DESCRIBE_SOBJECT" ->
         IF p = Undef THEN Thrown(tk, "TypeError")
         ELSE IF p.sObjectName = "" THEN Thrown(tk, "sObjectName is required.")
         ELSE IF CacheHit(ob[tk.state].sObjectDescribeCache, p.sObjectName)
              THEN Done(Respond(tk, SuccessResponse(
                     [describe |-> ob[tk.state].sObjectDescribeCache[p.sObjectName]])))
              ELSE CallRemote(tk, "remote")
    [] OTHER -> CallRemote(tk, "remote")

handleApiRequestFallsThrough(tk, ts, ob) ==
  IF ts[tk.tab] = 0
  THEN Thrown(Respond(tk, ErrorResponse(NoSessionMessage, "")), "TypeError")
  ELSE HandlerStart([tk EXCEPT !.state = ts[tk.tab]], ob)
\* handleApiRequest(tabId, handler, sendResponse)
handleApiRequest(tk, ts, ob) ==
  IF ts[tk.tab] = 0
  THEN Done(Respond(tk, ErrorResponse(NoSessionMessage, "")))
  ELSE HandlerStart([tk EXCEPT !.state = ts[tk.tab]], ob)

\* Number(payload.value) || 500
ToMaxRequestEntries(v) == IF v = 0 THEN DefaultMaxRequestEntries ELSE v

\* the cases of the switch, each up to its first await; ts and ob are
\* tabsState and the TabState objects as initializeTabState left them
DispatchCase(tk, ts, ob) ==
  LET p == tk.payload
      same == [max |-> maxRequestEntries, aura |-> isAuraCaptureEnabled]
  IN
  CASE tk.type \in SessionOps ->
         [task |-> handleApiRequest(tk, ts, ob)] @@ same
    [] tk.type = "GET_API_CALL" ->
         [task |-> IF p = Undef \/ p.id = 0 THEN Escape(tk)
                   ELSE [tk EXCEPT !.pc = "db"]] @@ same
    [] tk.type \in LogOps \ {"GET_API_CALL"} ->
         [task |-> [tk EXCEPT !.pc = "db"]] @@ same
    [] tk.type = "GET_MAX_REQUEST_ENTRIES" ->
         [task |-> Done(Respond(tk, SuccessResponse([value |-> maxRequestEntries])))]
           @@ same
    [] tk.type = "SET_MAX_REQUEST_ENTRIES" ->
         IF p = Undef THEN [task |-> Escape(tk)] @@ same
         ELSE [task |-> [tk EXCEPT !.pc = "storageSet"],
               max |-> ToMaxRequestEntries(p.value),
               aura |-> isAuraCaptureEnabled]
    [] tk.type = "GET_AURA_CAPTURE_STATE" ->
         [task |-> Done(Respond(tk, SuccessResponse([enabled |-> isAuraCaptureEnabled])))]
           @@ same
    [] tk.type = "SET_AURA_CAPTURE_STATE" ->
         IF p = Undef THEN [task |-> Escape(tk)] @@ same
         ELSE [task |-> [tk EXCEPT !.pc = "storageSet"],
               max |-> maxRequestEntries, aura |-> p.enable]

DispatchDefaultDropped(tk) == Done(tk)
\* the default case (index.ts:438-443)
DispatchDefault(tk) ==
  Done(Respond(tk, ErrorResponse("Unknown message type: ", tk.type)))

\* the switch on type (index.ts:305-443)
Dispatch(tk, ts, ob) ==
  IF tk.type \in HandledTypes THEN DispatchCase(tk, ts, ob)
  ELSE [task |-> DispatchDefault(tk), max |-> maxRequestEntries,
        aura |-> isAuraCaptureEnabled]

SetTask(i, tk) == tasks' = [tasks EXCEPT ![i] = tk]

\* the steps at which an invocation waits for a transaction on the store
DbSteps == {"db", "save", "trimList", "trimDelete"}
\* transactions on one object store complete in the order of their
\* creation: invocation i waits for the oldest of them
Oldest(i) == transactions # <<>> /\ Head(transactions) = i
\* the transaction of invocation i has completed, and the invocation goes on
\* as tk, creating one if it waits for the store again
Requeue(i, tk) ==
  LET rest == SelectSeq(transactions, LAMBDA j : j # i)
  IN IF tk # Idle /\ tk.pc \in DbSteps THEN Append(rest, i) ELSE rest

Running(i) == tasks[i] # Idle /\ tasks[i].pc # "done"

\* the lowest of the first n slots is free
FreeSlot(i, n) ==
  /\ i <= n
  /\ tasks[i] = Idle
  /\ \A j \in 1..n : tasks[j] = Idle => i <= j

\* a completed invocation is forgotten
Retire(i) ==
  /\ tasks[i] # Idle
  /\ tasks[i].pc = "done"
  /\ tasks' = [tasks EXCEPT ![i] = Idle]
  /\ objs' = Collect(objs, tabsState, tasks')
  /\ UNCHANGED <<browserVars, tabsState, attachedDebuggerTabs, attachCb, detachCb,
                 settingsVars, store, family, captureVars, transactions, pageVars, timeVars>>

\* chrome.runtime.onMessage listener, up to the await of initializeTabState
Receive(n, tab, type, payload) ==
  /\ type \in TypesOf(family)
  /\ \E i \in TaskIds :
       /\ FreeSlot(i, n)
       /\ IF tab = NoTab
          THEN SetTask(i, Done(Respond(NewTask(type, tab, payload),
                 ErrorResponse("Message must be sent from a tab.", ""))))
          ELSE SetTask(i, NewTask(type, tab, payload))
  /\ UNCHANGED <<browserVars, sessionVars, settingsVars, store, family, captureVars, transactions, pageVars, timeVars>>

\* chrome.tabs.onActivated listener
OnActivated(n, t) ==
  /\ tabStatus[t] = "open"
  /\ \E i \in TaskIds : FreeSlot(i, n) /\ SetTask(i, NewTask("onActivated", t, Undef))
  /\ UNCHANGED <<browserVars, sessionVars, settingsVars, store, family, captureVars, transactions, pageVars, timeVars>>

\* chrome.tabs.onUpdated listener
OnUpdated(n, t) ==
  /\ tabStatus[t] = "open"
  /\ tabUrl[t] # NoUrl
  /\ \E i \in TaskIds : FreeSlot(i, n) /\ SetTask(i, NewTask("onUpdated", t, Undef))
  /\ UNCHANGED <<browserVars, sessionVars, settingsVars, store, family, captureVars, transactions, pageVars, timeVars>>

----------------------------------------------------------------------------
(* initializeTabState (index.ts:101-154) *)

\* the code after "await initializeTabState(tabId)": nothing for a tab event,
\* the switch for a message. ts, ob, ac, dc are tabsState, the TabState
\* objects and the callbacks in flight as initializeTabState left them
AfterInit(i, found, ts, ob, ac, dc) ==
  /\ \A t \in Tabs : ac[t] <= MaxCb /\ dc[t] <= MaxCb
  /\ tabsState' = ts
  /\ attachCb' = ac
  /\ detachCb' = dc
  /\ LET tk == [tasks[i] EXCEPT
                  !.found = found, !.had = tabsState[tasks[i].tab],
                  !.session = IF ts[tasks[i].tab] = 0 THEN "no" ELSE "yes"]
         d == IF tk.type \in TabEvents
              THEN [task |-> Done(tk), max |-> maxRequestEntries,
                    aura |-> isAuraCaptureEnabled]
              ELSE Dispatch(tk, ts, ob)
     IN /\ SetTask(i, d.task)
        /\ maxRequestEntries' = d.max
        /\ isAuraCaptureEnabled' = d.aura
  /\ objs' = Collect(ob, ts, tasks')
  /\ transactions' = Requeue(i, tasks'[i])
  /\ lastUsedAt' = [lastUsedAt EXCEPT ![tasks[i].tab] = now]
  /\ UNCHANGED <<browserVars, attachedDebuggerTabs, settingsLoaded, storage, changes, store, family, captureVars, pageVars>>

UrlOutcomeKeepsSession(t) ==
  [returns |-> tabStatus[t] # "open" \/ ~IsSalesforceUrl(tabUrl[t]),
   ts |-> tabsState, dc |-> detachCb]
\* index.ts:103-115 once chrome.tabs.get has settled: whether the function
\* returns here, and the session map and detach callbacks it leaves
UrlOutcome(t) ==
  LET url == tabUrl[t] IN
  IF tabStatus[t] # "open" \/ url = NoUrl
  THEN \* "No tab with id" is caught; a tab without URL returns
       [returns |-> TRUE, ts |-> tabsState, dc |-> detachCb]
  ELSE IF ~IsSalesforceUrl(url)
  THEN [returns |-> TRUE, ts |-> [tabsState EXCEPT ![t] = 0],
        dc |-> detachDebugger(t, detachCb)]
  ELSE [returns |-> FALSE, ts |-> tabsState, dc |-> detachCb]

\* "await chrome.tabs.get(tabId)" resolves or rejects
TabsGet(i) ==
  /\ tasks[i] # Idle
  /\ tasks[i].pc = "tabsGet"
  /\ LET t == tasks[i].tab
         r == UrlOutcome(t)
         found == IF tabStatus[t] # "open" THEN "no tab"
                  ELSE IF tabUrl[t] = NoUrl THEN "no url" ELSE "no match"
     IN IF r.returns
        THEN AfterInit(i, found, r.ts, objs, attachCb, r.dc)
        ELSE /\ tasks' = [tasks EXCEPT ![i].pc = "cookiesGet",
                                       ![i].instanceUrl = InstanceUrl(tabUrl[t])]
             /\ UNCHANGED <<browserVars, sessionVars, settingsVars, store, family, captureVars, transactions, pageVars, timeVars>>

CookieOutcomeAlwaysReplaces(t, url, cookie) ==
  IF cookie = NoCookie
  THEN [ts |-> [tabsState EXCEPT ![t] = 0], ob |-> objs, ac |-> attachCb,
        dc |-> detachDebugger(t, detachCb)]
  ELSE [ts |-> [tabsState EXCEPT ![t] = NewObj],
        ob |-> [objs EXCEPT ![NewObj] = NewSession(cookie, url)],
        ac |-> attachDebugger(t, attachCb), dc |-> detachCb]
\* index.ts:123-147 once chrome.cookies.get has resolved with cookie
CookieOutcome(t, url, cookie) ==
  IF cookie = NoCookie
  THEN [ts |-> [tabsState EXCEPT ![t] = 0], ob |-> objs, ac |-> attachCb,
        dc |-> detachDebugger(t, detachCb)]
  ELSE IF tabsState[t] # 0 /\ objs[tabsState[t]].sessionId = cookie
  THEN [ts |-> tabsState, ob |-> objs, ac |-> attachDebugger(t, attachCb),
        dc |-> detachCb]
  ELSE [ts |-> [tabsState EXCEPT ![t] = NewObj],
        ob |-> [objs EXCEPT ![NewObj] = NewSession(cookie, url)],
        ac |-> attachDebugger(t, attachCb), dc |-> detachCb]

\* "await chrome.cookies.get({url: instanceUrl, name: 'sid'})" resolves
CookiesResolve(i, cookie) ==
  /\ tasks[i] # Idle
  /\ tasks[i].pc = "cookiesGet"
  /\ LET t == tasks[i].tab
         r == CookieOutcome(t, tasks[i].instanceUrl, cookie)
         found == IF cookie = NoCookie THEN "no cookie"
                  ELSE IF tabsState[t] # 0 /\ objs[tabsState[t]].sessionId = cookie
                       THEN "same credential" ELSE "new credential"
     IN AfterInit(i, found, r.ts, r.ob, r.ac, r.dc)
\* the cookie read and the continuation in one step
CookiesGet(i) ==
  /\ tasks[i] # Idle
  /\ CookiesResolve(i, cookies[tasks[i].instanceUrl])

\* the same in two steps: the browser reads the cookie store, and the
\* promise resolves later with the value that was read
readOnlyVars == <<browserVars, sessionVars, settingsVars, store, tasks, family,
                  captureVars, transactions, invocations, installVars, bridgeVars,
                  walkVars, timeVars>>
CookiesRead(i) ==
  /\ tasks[i] # Idle
  /\ tasks[i].pc = "cookiesGet"
  /\ cookieRead[i] = Unread
  /\ cookieRead' = [cookieRead EXCEPT ![i] = cookies[tasks[i].instanceUrl]]
  /\ lastRead' = [lastRead EXCEPT ![tasks[i].tab] = cookies[tasks[i].instanceUrl]]
  /\ UNCHANGED readOnlyVars
CookiesResolved(i) ==
  /\ cookieRead[i] # Unread
  /\ CookiesResolve(i, cookieRead[i])

----------------------------------------------------------------------------
(* The handlers after their first await *)

\* GET_RECORD: "await chrome.tabs.get(tabId)" settles (index.ts:313-318)
GetTab(i) ==
  /\ tasks[i] # Idle
  /\ tasks[i].pc = "getTab"
  /\ LET tk == tasks[i]
         t == tk.tab
     IN SetTask(i, IF tabStatus[t] # "open" THEN Thrown(tk, "No tab with id")
                   ELSE IF ~IsRecordPage(tabUrl[t])
                        THEN Thrown(tk, "Not a standard record page.")
                        ELSE CallRemote(tk, "remote"))
  /\ objs' = Collect(objs, tabsState, tasks')
  /\ UNCHANGED <<browserVars, tabsState, attachedDebuggerTabs, attachCb, detachCb,
                 settingsVars, store, family, captureVars, transactions, pageVars, timeVars>>

\* the TabState whose cache "state.sObjectDescribeCache.set" writes: the
\* one handleApiRequest handed to the handler (index.ts:348)
DescribeTargetCurrent(tk, ts) == IF ts[tk.tab] # 0 THEN ts[tk.tab] ELSE tk.state
DescribeTarget(tk, ts) == tk.state

\* state.sObjectDescribeCache.set(payload.sObjectName, result)
CacheSetIfAbsent(cache, name, result) ==
  IF cache[name] = Absent THEN [cache EXCEPT ![name] = result] ELSE cache
CacheSet(cache, name, result) == [cache EXCEPT ![name] = result]

\* the first call on state.jsforceConnection settles: retrieve, update,
\* describe (with "result") or identity
RemoteReturns(i, ok, result) ==
  /\ tasks[i] # Idle
  /\ tasks[i].pc = "remote"
  /\ LET tk == tasks[i]
         p == tk.payload
         conn == objs[tk.state].jsforceConnection
     IN IF ~ok
        THEN /\ SetTask(i, Thrown(tk, "remote error"))
             /\ objs' = Collect(objs, tabsState, tasks')
        ELSE CASE tk.type \in {"GET_RECORD", "UPDATE_RECORD"} ->
                    /\ SetTask(i, Done(Respond(tk, SuccessResponse([result |-> tk.type]))))
                    /\ objs' = Collect(objs, tabsState, tasks')
               [] tk.type = "DESCRIBE_SOBJECT" ->
                    /\ SetTask(i, Done(Respond(tk, SuccessResponse(
                                   [describe |-> result]))))
                    /\ objs' = Collect(
                         [objs EXCEPT ![DescribeTarget(tk, tabsState)]
                                         .sObjectDescribeCache =
                                        CacheSet(@, p.sObjectName, result)],
                         tabsState, tasks')
               [] tk.type = "GET_LWC_DEBUG_STATUS" ->
                    /\ SetTask(i, CallRemote(tk, "remote2"))
                    /\ objs' = objs
               [] tk.type = "TOGGLE_LWC_DEBUG" ->
                    /\ SetTask(i, IF p = Undef THEN Thrown(tk, "TypeError")
                                  ELSE CallRemote(tk, "remote2"))
                    /\ objs' = Collect(objs, tabsState, tasks')
  /\ UNCHANGED <<browserVars, tabsState, attachedDebuggerTabs, attachCb, detachCb,
                 settingsVars, store, family, captureVars, transactions, pageVars, timeVars>>

\* the same, a describe result standing for the credential it was fetched
\* with
Remote(i, ok) ==
  /\ tasks[i] # Idle
  /\ RemoteReturns(i, ok, objs[tasks[i].state].jsforceConnection.sessionId)

\* the second call settles: the query of GET_LWC_DEBUG_STATUS (finding the
\* preference isEnabled) or the update of TOGGLE_LWC_DEBUG
Remote2(i, ok, isEnabled) ==
  /\ tasks[i] # Idle
  /\ tasks[i].pc = "remote2"
  /\ LET tk == tasks[i]
         v == IF tk.type = "TOGGLE_LWC_DEBUG" THEN tk.payload.enabled ELSE isEnabled
     IN IF ~ok
        THEN /\ SetTask(i, Thrown(tk, "remote error"))
             /\ objs' = Collect(objs, tabsState, tasks')
        ELSE /\ SetTask(i, Done(Respond(tk, SuccessResponse([lwc |-> v]))))
             /\ objs' = Collect([objs EXCEPT ![tk.state].lwc = v], tabsState, tasks')
  /\ UNCHANGED <<browserVars, tabsState, attachedDebuggerTabs, attachCb, detachCb,
                 settingsVars, store, family, captureVars, transactions, pageVars, timeVars>>

\* the promise of a db.ts operation settles (index.ts:389-411); a rejection
\* has no handler
Db(i, ok) ==
  /\ tasks[i] # Idle
  /\ tasks[i].pc = "db"
  /\ Oldest(i)
  /\ LET tk == tasks[i] IN
     IF ~ok
     THEN SetTask(i, Escape(tk)) /\ store' = store
     ELSE CASE tk.type = "GET_API_CALL" ->
                 /\ SetTask(i, Done(Respond(tk, SuccessResponse(
                                [call |-> get(store, tk.payload.id)]))))
                 /\ store' = store
            [] tk.type = "LIST_API_CALLS" ->
                 /\ SetTask(i, Done(Respond(tk, SuccessResponse(
                                [calls |-> list(store, tk.tab)]))))
                 /\ store' = store
            [] tk.type = "LIST_ALL_API_CALLS" ->
                 /\ SetTask(i, Done(Respond(tk, SuccessResponse(
                                [calls |-> listAll(store)]))))
                 /\ store' = store
            [] tk.type = "CLEAR_API_CALLS" ->
                 /\ SetTask(i, Done(Respond(tk, SuccessResponse([void |-> TRUE]))))
                 /\ store' = clear(store, tk.tab)
            [] tk.type = "CLEAR_ALL_API_CALLS" ->
                 /\ SetTask(i, Done(Respond(tk, SuccessResponse([void |-> TRUE]))))
                 /\ store' = clearAll(store)
  /\ objs' = Collect(objs, tabsState, tasks')
  /\ transactions' = Requeue(i, tasks'[i])
  /\ UNCHANGED <<browserVars, tabsState, attachedDebuggerTabs, attachCb, detachCb,
                 settingsVars, family, captureVars, pageVars, timeVars>>

\* "await chrome.storage.local.set(...)" settles (index.ts:420-436); the
\* value written is the one assigned before the call
StorageSet(i, ok) ==
  /\ tasks[i] # Idle
  /\ tasks[i].pc = "storageSet"
  /\ LET tk == tasks[i]
         isMax == tk.type = "SET_MAX_REQUEST_ENTRIES"
         old == IF isMax THEN storage.max ELSE storage.aura
         new == IF isMax THEN ToMaxRequestEntries(tk.payload.value)
                ELSE tk.payload.enable
     IN IF ~ok
        THEN /\ SetTask(i, Escape(tk))
             /\ UNCHANGED <<storage, changes>>
        ELSE /\ storage' = IF isMax THEN [storage EXCEPT !.max = {new}]
                           ELSE [storage EXCEPT !.aura = {new}]
             /\ IF old = {new} THEN changes' = changes
                ELSE /\ Len(changes) < MaxChanges
                     /\ changes' = Append(changes,
                          [key |-> IF isMax THEN "maxRequestEntries"
                                   ELSE "isAuraCaptureEnabled",
                           newValue |-> new])
             /\ LET r == Respond(tk, SuccessResponse([void |-> TRUE]))
                IN SetTask(i, IF isMax THEN [r EXCEPT !.pc = "trimList"] ELSE Done(r))
  /\ objs' = Collect(objs, tabsState, tasks')
  /\ transactions' = Requeue(i, tasks'[i])
  /\ UNCHANGED <<browserVars, tabsState, attachedDebuggerTabs, attachCb, detachCb,
                 isAuraCaptureEnabled, maxRequestEntries, settingsLoaded, store, family, captureVars, pageVars, timeVars>>

\* chrome.storage.onChanged listener (index.ts:60-69)
OnChanged ==
  /\ changes # <<>>
  /\ LET c == Head(changes) IN
     /\ isAuraCaptureEnabled' =
          IF c.key = "isAuraCaptureEnabled" THEN c.newValue ELSE isAuraCaptureEnabled
     /\ maxRequestEntries' =
          IF c.key = "maxRequestEntries" THEN c.newValue ELSE maxRequestEntries
  /\ changes' = Tail(changes)
  /\ UNCHANGED <<browserVars, sessionVars, settingsLoaded, storage, store, tasks, family, captureVars, transactions, pageVars, timeVars>>

\* initializeSettings: "await chrome.storage.local.get(...)" resolves
\* (index.ts:42-57)
initializeSettings ==
  /\ ~settingsLoaded
  /\ settingsLoaded' = TRUE
  /\ isAuraCaptureEnabled' =
       IF storage.aura # {} THEN CHOOSE b \in storage.aura : TRUE
       ELSE isAuraCaptureEnabled
  /\ maxRequestEntries' =
       IF storage.max # {} THEN CHOOSE n \in storage.max : TRUE
       ELSE maxRequestEntries
  /\ UNCHANGED <<browserVars, sessionVars, storage, changes, store, tasks, family, captureVars, transactions, pageVars, timeVars>>

----------------------------------------------------------------------------
(* Retention (index.ts:156-172) *)

\* allCalls.slice(maxRequestEntries).map(call => call.id), when
\* allCalls.length > maxRequestEntries
idsToDeleteOldest(allCalls, max) ==
  IF Len(allCalls) > max THEN Ids(Slice(allCalls, Len(allCalls) - 1)) ELSE {}
idsToDelete(allCalls, max) ==
  IF Len(allCalls) > max THEN Ids(Slice(allCalls, max)) ELSE {}

\* where trimDatabase ends: a message handler has completed, a
\* save-then-trim chain leaves nothing behind
Finish(tk) == IF tk.type = "save" THEN Idle ELSE Done(tk)

\* trimDatabase: an await inside its try block rejects (index.ts:169-171)
TrimFailedUncaught(tk) == Escape(tk)
TrimFailed(tk) == Finish(tk)

\* trimDatabase: "await listAll()" settles; a rejection is caught
TrimList(i, ok) ==
  /\ tasks[i] # Idle
  /\ tasks[i].pc = "trimList"
  /\ Oldest(i)
  /\ LET tk == tasks[i]
         ids == idsToDelete(listAll(store), maxRequestEntries)
     IN SetTask(i, IF ~ok THEN TrimFailed(tk)
                   ELSE IF ids # {}
                   THEN [tk EXCEPT !.pc = "trimDelete", !.ids = ids]
                   ELSE Finish(tk))
  /\ objs' = Collect(objs, tabsState, tasks')
  /\ transactions' = Requeue(i, tasks'[i])
  /\ UNCHANGED <<browserVars, tabsState, attachedDebuggerTabs, attachCb, detachCb,
                 settingsVars, store, family, captureVars, pageVars, timeVars>>

\* trimDatabase: "await deleteByIds(idsToDelete)" settles; a rejection is caught
TrimDelete(i, ok) ==
  /\ tasks[i] # Idle
  /\ tasks[i].pc = "trimDelete"
  /\ Oldest(i)
  /\ store' = IF ok THEN deleteByIds(store, tasks[i].ids) ELSE store
  /\ SetTask(i, IF ok THEN Finish(tasks[i]) ELSE TrimFailed(tasks[i]))
  /\ objs' = Collect(objs, tabsState, tasks')
  /\ transactions' = Requeue(i, tasks'[i])
  /\ UNCHANGED <<browserVars, tabsState, attachedDebuggerTabs, attachCb, detachCb,
                 settingsVars, family, captureVars, pageVars, timeVars>>

----------------------------------------------------------------------------
(* The debugger channel (index.ts:189-267) *)

\* the requests the debugger reports: method, URL (path segments and the
\* names of the query parameters) and form body
RecordUiParam == "aura.RecordUi.getRecordWithFields"
ApexActionParam == "aura.ApexAction.execute"
\* path segments that begin with "aura"
AuraPrefixed == {"aura", "auraFW"}
RequestUrls ==
  {[path |-> <<"aura">>, query |-> {"r", RecordUiParam}],
   [path |-> <<"aura">>, query |-> {"r", ApexActionParam}],
   [path |-> <<"aura">>, query |-> {"r", "aura.Other.run"}],
   [path |-> <<"auraFW", "a.js">>, query |-> {ApexActionParam}],
   [path |-> <<"services", "data">>, query |-> {ApexActionParam}]}
Methods == {"POST", "GET"}

\* params.request.url.includes("/aura")
IncludesAura(u) == \E i \in 1..Len(u.path) : u.path[i] \in AuraPrefixed

\* the actions of a batch, at most MaxBatch of them
Batches(S) == UNION {[1..n -> S] : n \in 0..MaxBatch}
RequestActions == {[id |-> a] : a \in ActionIds}
States == {"SUCCESS", "ERROR", "INCOMPLETE"}
\* a response action: its id, its state and, when it succeeded, what the
\* server returned
ResponseAction(a, st) ==
  [id |-> a, state |-> st,
   returnValue |-> IF st = "SUCCESS" THEN [x |-> 1] ELSE Undef]
ResponseActions == {ResponseAction(a, st) : a \in ActionIds, st \in States}
\* the response actions of a run: in the order of their ids (the callback
\* looks them up by id), or two of one id; a state other than SUCCESS and
\* ERROR comes in a response of one action
ResponseBatches ==
  {q \in Batches(ResponseActions) :
     /\ \/ \A i, j \in 1..Len(q) : i < j => q[i].id < q[j].id
        \/ Len(q) = 2 /\ q[1].id = q[2].id /\ q[1].state # q[2].state
     /\ \/ Len(q) = 1
        \/ \A i \in 1..Len(q) : q[i].state \in {"SUCCESS", "ERROR"}}
\* the form body of a request: its "message" field is missing, is JSON
\* without an actions list, or is a batch
PostData ==
  {[message |-> "absent", actions |-> <<>>],
   [message |-> "no actions", actions |-> <<>>]} \cup
  {[message |-> "batch", actions |-> q] : q \in Batches(RequestActions)}
\* what Network.getResponseBody hands to the callback
Bodies ==
  {[kind |-> "invalid", actions |-> <<>>],
   [kind |-> "no actions", actions |-> <<>>]} \cup
  {[kind |-> "batch", actions |-> q] : q \in ResponseBatches}

\* the condition under which the listener goes on (index.ts:190-195)
Listening(tab) == isAuraCaptureEnabled /\ tab \in attachedDebuggerTabs

\* chrome.debugger.onEvent, method Network.requestWillBeSent
\* (index.ts:190-218); "at" is what Date.now() returns
RequestWillBeSent(tab, requestId, method, url, postData, at) ==
  /\ network[requestId] = NoRequest
  /\ network' = [network EXCEPT ![requestId] =
                   [state |-> "sent", method |-> method, url |-> url]]
  /\ now <= at /\ at <= MaxTime
  /\ IF /\ Listening(tab)
        /\ IncludesAura(url)
        /\ method = "POST"
        /\ url.query \cap {RecordUiParam, ApexActionParam} # {}
     THEN /\ requestDataMap' =
               [requestDataMap EXCEPT ![requestId] =
                  [requestedAt |-> at, postData |-> postData,
                   type |-> IF RecordUiParam \in url.query THEN "RecordUi"
                            ELSE "ApexAction"]]
          /\ now' = at
     ELSE UNCHANGED <<requestDataMap, now>>
  /\ UNCHANGED <<browserVars, sessionVars, settingsVars, store, tasks, family,
                 bodyCalls, unwrapped, transactions, pageVars, timeVars>>

\* chrome.debugger.onEvent, method Network.responseReceived
\* (index.ts:220-227): the command is sent, its callback runs later
ResponseReceived(tab, requestId) ==
  /\ network[requestId].state = "sent"
  /\ network' = [network EXCEPT ![requestId].state = "responded"]
  /\ IF Listening(tab) /\ requestDataMap[requestId] # NoEntry
     THEN /\ Len(bodyCalls) < MaxFetch
          /\ bodyCalls' = Append(bodyCalls, [tabId |-> tab, requestId |-> requestId])
     ELSE UNCHANGED bodyCalls
  /\ UNCHANGED <<browserVars, sessionVars, settingsVars, store, tasks, family,
                 requestDataMap, now, unwrapped, transactions, pageVars, timeVars>>

\* new Map(responsePayload.actions.map(action => [action.id, action])): the
\* last action of an id is the one the map keeps
responseActionsById(S) ==
  [a \in {S[j].id : j \in 1..Len(S)} |->
     S[CHOOSE j \in 1..Len(S) :
         S[j].id = a /\ \A k \in 1..Len(S) : S[k].id = a => k <= j]]

UnwrapResponses(R, S) ==
  LET found == SelectSeq([j \in 1..Len(S) |-> j],
                         LAMBDA j : \E i \in 1..Len(R) : R[i].id = S[j].id)
  IN [n \in 1..Len(found) |->
        [requestAction |-> R[CHOOSE i \in 1..Len(R) : R[i].id = S[found[n]].id],
         responseAction |-> S[found[n]]]]
\* the loop over requestMessage.actions (index.ts:245-263): the request
\* actions that have a response action, with it, in the order of the request
Unwrap(R, S) ==
  LET byId == responseActionsById(S)
      found == SelectSeq([i \in 1..Len(R) |-> i],
                         LAMBDA i : R[i].id \in DOMAIN byId)
  IN [n \in 1..Len(found) |->
        [requestAction |-> R[found[n]], responseAction |-> byId[R[found[n]].id]]]

\* the ids crypto.randomUUID() can return: those of no record stored or
\* being saved
PendingSave(i) == tasks[i] # Idle /\ tasks[i].type = "save" /\ tasks[i].pc = "save"
FreshUuids ==
  Uuids \ ({r.id : r \in store} \cup
           {tasks[i].payload.id : i \in {j \in TaskIds : PendingSave(j)}})
Injections(n, S) ==
  {f \in [1..n -> S] : \A i, j \in 1..n : f[i] = f[j] => i = j}
\* the n least elements of S
Least(n, S) == {x \in S : Cardinality({y \in S : y < x}) < n}

\* save(finalCall).then(trimDatabase) (index.ts:262), up to the first await
SaveThenTrim(finalCall) ==
  [NewTask("save", finalCall.tabId, finalCall) EXCEPT !.pc = "save", !.found = "none"]

\* what the k-th callback in flight unwraps when it is given the body
Unwrapped(k, body) ==
  LET requestInfo == requestDataMap[bodyCalls[k].requestId]
  IN IF requestInfo = NoEntry THEN <<>>
     ELSE Unwrap(requestInfo.postData.actions, body.actions)

IdleSlots == {i \in 1..MaxBatch : tasks[i] = Idle}
\* the n-th idle slot
NthIdle(n) == CHOOSE i \in IdleSlots : Cardinality({j \in IdleSlots : j < i}) = n - 1

\* requestDataMap.delete(params.requestId), the first thing the callback does
\* ("returns": the callback is about to return at its guard)
DeleteUnlessReturning(map, requestId, returns) ==
  IF returns THEN map ELSE [map EXCEPT ![requestId] = NoEntry]
Delete(map, requestId, returns) == [map EXCEPT ![requestId] = NoEntry]

\* responseAction.state === "SUCCESS" ? "Success" : "Error" (index.ts:259)
StatusUnlessError(responseAction) ==
  IF responseAction.state # "ERROR" THEN "Success" ELSE "Error"
Status(responseAction) ==
  IF responseAction.state = "SUCCESS" THEN "Success" ELSE "Error"

\* the callback of Network.getResponseBody (index.ts:228-264)
BodyCallback(k, lastError, hasBody, body, at, uuid) ==
  /\ k \in 1..Len(bodyCalls)
  /\ now <= at /\ at <= MaxTime
  /\ LET c == bodyCalls[k]
         requestInfo == requestDataMap[c.requestId]
         returns == lastError \/ ~hasBody \/ requestInfo = NoEntry
         raises == ~returns /\ (body.kind # "batch" \/ requestInfo.postData.message # "batch")
         R == IF returns \/ raises THEN <<>> ELSE requestInfo.postData.actions
         pairs == Unwrap(R, body.actions)
         calls == [n \in 1..Len(pairs) |->
                     ApiCall(uuid[n], c.tabId, requestInfo.type,
                             requestInfo.requestedAt, at,
                             pairs[n].requestAction, pairs[n].responseAction,
                             Status(pairs[n].responseAction))]
     IN /\ DOMAIN uuid = 1..Len(pairs)
        /\ Len(pairs) <= Cardinality(IdleSlots)
        /\ requestDataMap' = Delete(requestDataMap, c.requestId, returns)
        /\ bodyCalls' = [j \in 1..(Len(bodyCalls) - 1) |->
                           IF j < k THEN bodyCalls[j] ELSE bodyCalls[j + 1]]
        /\ now' = IF returns THEN now ELSE at
        /\ tasks' = [i \in TaskIds |->
                       IF \E n \in 1..Len(calls) : NthIdle(n) = i
                       THEN SaveThenTrim(
                              calls[CHOOSE n \in 1..Len(calls) : NthIdle(n) = i])
                       ELSE tasks[i]]
        /\ transactions' = transactions \o [n \in 1..Len(calls) |-> NthIdle(n)]
        /\ unwrapped' = [k |-> IF returns THEN "returned"
                               ELSE IF raises THEN "raised" ELSE "unwrapped",
                         requestId |-> c.requestId,
                         failed |-> lastError \/ ~hasBody,
                         request |-> R, response |-> body.actions,
                         calls |-> calls]
  /\ UNCHANGED <<browserVars, sessionVars, settingsVars, store, family, network,
                 pageVars, timeVars>>

\* "await db.add('apiCalls', call)" settles (db.ts:56-59); trimDatabase is
\* the continuation of a fulfilled save only
Save(i, ok) ==
  /\ PendingSave(i)
  /\ Oldest(i)
  /\ store' = IF ok THEN store \cup {tasks[i].payload} ELSE store
  /\ SetTask(i, IF ok THEN [tasks[i] EXCEPT !.pc = "trimList"] ELSE Idle)
  /\ transactions' = Requeue(i, tasks'[i])
  /\ UNCHANGED <<browserVars, sessionVars, settingsVars, family, captureVars, pageVars, timeVars>>

----------------------------------------------------------------------------
(* The wrapper of the page's dispatch functions (inject.js:27-127) *)

\* args[0]: missing, a string "<scope>.<function>", or a value that is not
\* a string (it has no split method)
Arg0s ==
  {"undefined", "ApexActionController.execute",
   "RecordUiController.getRecordWithFields", "Other.run", "not a string"}
\* args[1]: missing, or an object that the structured clone algorithm
\* accepts or rejects (it holds a function, say)
Params == {"undefined", "cloneable", "not cloneable"}
\* what the real function returns: a value without accessors, or an action
\* result whose getReturnValue() is cloneable or not
Results == {"plain", "result", "result not cloneable"}
\* what the real function throws or rejects with: an Error, a string, or
\* null or undefined
Errors == {"Error", "string", "null"}

Pending == [k |-> "pending", v |-> "none"]
Value(v) == [k |-> "value", v |-> v]
Raised(e) == [k |-> "error", v |-> e]
Outcomes == {Value(v) : v \in Results} \cup {Raised(e) : e \in Errors}

\* the wrapper up to the call of the real function (inject.js:31-73):
\* qualified.split and window.postMessage may throw
BeforeCall(arg0, params) ==
  IF arg0 = "not a string" THEN Raised("TypeError")
  ELSE IF params = "not cloneable" THEN Raised("DataCloneError")
  ELSE Pending

\* the catch block (inject.js:103-123) with the messages posted so far
Catch(err, posted, rowId) ==
  IF err = "null"
  THEN \* err.message of null or undefined
       [outcome |-> Raised("TypeError"), posted |-> posted]
  ELSE [outcome |-> Raised(err),
        posted |-> Append(posted, [type |-> "AURA_REQUEST_COMPLETE", id |-> rowId,
                                   state |-> "ERROR"])]

\* the try block once the real function has returned res (inject.js:77-102)
Returned(res, posted, rowId) ==
  IF res = "result not cloneable"
  THEN Catch("DataCloneError", posted, rowId)
  ELSE [outcome |-> Value(res),
        posted |-> Append(posted,
                     [type |-> "AURA_REQUEST_COMPLETE", id |-> rowId,
                      state |-> IF res = "plain" THEN "SUCCESS" ELSE "getState()"])]

\* the values crypto.randomUUID() returns in the page: those of no
\* invocation in progress
WrapperIds == 1..(MaxInvocations + 1)
FreshRowIds ==
  WrapperIds \ {invocations[j].id :
                  j \in {k \in 1..MaxInvocations : invocations[k] # NoInvocation}}

FreeInvocation(i) ==
  /\ invocations[i] = NoInvocation
  /\ \A j \in 1..MaxInvocations : invocations[j] = NoInvocation => i <= j

\* the page calls the wrapper; it runs to "await fn.apply(this, args)", or to
\* its end if it throws before or the real function throws at once ("sync" is
\* what the real function does when called: Pending if it returns a promise
\* or a value)
Invoke(i, rowId, arg0, params, sync) ==
  /\ FreeInvocation(i)
  /\ rowId \in FreshRowIds
  /\ sync \in {Pending} \cup {Raised(e) : e \in Errors}
  /\ LET before == BeforeCall(arg0, params)
         start == <<[type |-> "AURA_REQUEST_START", id |-> rowId, state |-> ""]>>
         inv == [pc |-> "awaiting", id |-> rowId, args |-> <<arg0, params>>, invoked |-> 0,
                 with |-> <<>>, real |-> Pending, outcome |-> Pending,
                 posted |-> <<>>]
     IN invocations' = [invocations EXCEPT ![i] =
          IF before # Pending
          THEN [inv EXCEPT !.pc = "settled", !.outcome = before]
          ELSE IF sync # Pending
          THEN LET c == Catch(sync.v, start, rowId)
               IN [inv EXCEPT !.pc = "settled", !.invoked = 1,
                              !.with = <<arg0, params>>, !.real = sync,
                              !.outcome = c.outcome, !.posted = c.posted]
          ELSE [inv EXCEPT !.invoked = 1, !.with = <<arg0, params>>,
                           !.posted = start]]
  /\ UNCHANGED <<browserVars, sessionVars, settingsVars, store, tasks, family,
                 captureVars, transactions, installVars, bridgeVars, readVars, walkVars, timeVars>>

\* what the real function returned settles, and the wrapper goes on after
\* its await
Settle(i, result) ==
  /\ invocations[i] # NoInvocation
  /\ invocations[i].pc = "awaiting"
  /\ LET inv == invocations[i]
         r == IF result.k = "value" THEN Returned(result.v, inv.posted, inv.id)
              ELSE Catch(result.v, inv.posted, inv.id)
     IN invocations' = [invocations EXCEPT ![i] =
          [inv EXCEPT !.pc = "settled", !.real = result, !.outcome = r.outcome,
                      !.posted = r.posted]]
  /\ UNCHANGED <<browserVars, sessionVars, settingsVars, store, tasks, family,
                 captureVars, transactions, installVars, bridgeVars, readVars, walkVars, timeVars>>

\* the caller has seen the outcome
Forget(i) ==
  /\ invocations[i] # NoInvocation
  /\ invocations[i].pc = "settled"
  /\ invocations' = [invocations EXCEPT ![i] = NoInvocation]
  /\ UNCHANGED <<browserVars, sessionVars, settingsVars, store, tasks, family,
                 captureVars, transactions, installVars, bridgeVars, readVars, walkVars, timeVars>>

----------------------------------------------------------------------------
(* inject.js: finding the Apex helpers in the page and wrapping them *)

\* A function value of the page: its name property, its __wrapped property
\* and the number of wrappers of makeLogger a call of it goes through.
Original(key) == [name |-> key, wrapped |-> FALSE, layers |-> 0]
IsFunction(v) == v # Undefined

\* Function.prototype.bind: a new function named "bound ..." that has none of
\* the own properties of its target and calls it
bind(fn) == [name |-> "bound", wrapped |-> FALSE, layers |-> fn.layers]

makeLogger(fn) ==
  IF fn.wrapped THEN fn
  ELSE [name |-> "wrapper", wrapped |-> TRUE, layers |-> fn.layers + 1]

\* the keys of root whose value is a function of that name
findPathsByKey(root, name) ==
  {k \in DOMAIN root : IsFunction(root[k]) /\ k = name}
findPaths(root, name) ==
  {k \in DOMAIN root : IsFunction(root[k]) /\ root[k].name = name}

\* findPaths as it runs (inject.js:15-24), one entry at a time: "seen" is the
\* Set shared by the calls, "stack" the calls in progress, each with the
\* object it expands, the key it was reached by and the entry it is at
walkOnlyVars == <<browserVars, sessionVars, settingsVars, store, tasks, family,
                  captureVars, transactions, invocations, installVars, bridgeVars,
                  readVars, timeVars>>
Frame(o, key) == [obj |-> o, key |-> key, k |-> 1]
Path(stack) == [n \in 1..(Len(stack) - 1) |-> stack[n + 1].key]
\* seen.add(root) and the start of flatMap over Object.entries(root)
Expand(w, o, key) ==
  [w EXCEPT !.seen = @ \cup {o}, !.stack = Append(@, Frame(o, key)),
            !.expanded[o] = @ + 1]

\* the scripts of the page build its objects
PageBuilds(g) ==
  /\ walk.pc = "unbuilt"
  /\ graph' = g
  /\ walk' = [walk EXCEPT !.pc = "built"]
  /\ UNCHANGED walkOnlyVars

\* findPaths(window, name): the first call, with an empty Set
findPathsCall ==
  /\ walk.pc = "built"
  /\ walk' = Expand([walk EXCEPT !.pc = "running"], 1, 0)
  /\ UNCHANGED <<walkOnlyVars, graph>>

\* the callback of flatMap on the next entry [k, v] of the object on top
findPathsEntry ==
  /\ walk.pc = "running"
  /\ LET top == walk.stack[Len(walk.stack)]
         on == [walk EXCEPT !.stack[Len(walk.stack)].k = @ + 1]
     IN /\ top.k <= Len(graph[top.obj])
        /\ LET v == graph[top.obj][top.k] IN
           walk' =
             IF v = Named
             THEN [on EXCEPT !.paths = @ \cup {Append(Path(walk.stack), top.k)}]
             ELSE IF v \in Objects /\ v \notin walk.seen
             THEN Expand(on, v, top.k)
             ELSE on
  /\ UNCHANGED <<walkOnlyVars, graph>>

\* flatMap has gone through every entry: the call on top returns
findPathsReturn ==
  /\ walk.pc = "running"
  /\ LET top == walk.stack[Len(walk.stack)] IN
       /\ top.k > Len(graph[top.obj])
       /\ walk' = [walk EXCEPT
                     !.stack = SubSeq(@, 1, Len(@) - 1),
                     !.pc = IF Len(walk.stack) = 1 THEN "returned" ELSE @]
  /\ UNCHANGED <<walkOnlyVars, graph>>

\* the condition of the loop of init
RetryingOnceMore(i) == i <= RETRIES
Retrying(i) == i < RETRIES

\* what a call of a function of the page posts: every wrapper posts START,
\* awaits the function it wraps and posts COMPLETE
RECURSIVE Events(_)
Events(layers) ==
  IF layers = 0 THEN <<>>
  ELSE <<"AURA_REQUEST_START">> \o Events(layers - 1) \o <<"AURA_REQUEST_COMPLETE">>

installOnlyVars == <<browserVars, sessionVars, settingsVars, store, tasks, family,
                     captureVars, transactions, invocations, bridgeVars, readVars, walkVars, timeVars>>

\* one pass of the loop body of init, up to its await or its return
Iteration(n, i) ==
  LET run == [inits[n] EXCEPT !.i = i, !.attempts = @ + 1,
                !.sawWrapper = @ \/ (/\ IsFunction(window.host[APEX_RAW_FN])
                                     /\ window.host[APEX_RAW_FN].wrapped)]
  IN IF window.throws
     THEN \* Object.entries reads a property whose getter throws
          /\ inits' = [inits EXCEPT ![n] = [run EXCEPT !.pc = "rejected"]]
          /\ UNCHANGED window
     ELSE IF findPaths(window.host, APEX_RAW_FN) = {}
     THEN /\ inits' = [inits EXCEPT ![n] = [run EXCEPT !.pc = "sleeping"]]
          /\ UNCHANGED window
     ELSE IF \/ ~IsFunction(window.host[APEX_FN])
             \/ window.__AURA_CAPTURE_ENABLED = "false"
     THEN /\ inits' = [inits EXCEPT ![n] = [run EXCEPT !.pc = "returned"]]
          /\ UNCHANGED window
     ELSE /\ inits' = [inits EXCEPT ![n] = [run EXCEPT !.pc = "installed"]]
          /\ window' = [window EXCEPT !.host =
               [k \in DOMAIN window.host |-> makeLogger(bind(window.host[k]))]]

\* the content script adds the script element and the page runs inject.js
Inject(n) ==
  /\ inits[n] = NoInit
  /\ \A m \in 1..MaxInits : inits[m] = NoInit => n <= m
  /\ Iteration(n, 0)
  /\ UNCHANGED <<installOnlyVars, lastCall>>

\* the timer of a run of init fires: the loop goes on
Wake(n) ==
  /\ inits[n].pc = "sleeping"
  /\ IF Retrying(inits[n].i + 1)
     THEN Iteration(n, inits[n].i + 1)
     ELSE /\ inits' = [inits EXCEPT ![n] = [@ EXCEPT !.pc = "gaveUp", !.i = @ + 1]]
          /\ UNCHANGED window
  /\ UNCHANGED <<installOnlyVars, lastCall>>

\* the framework of the page loads and defines its helpers
PageDefines(keys) ==
  /\ \A k \in DOMAIN window.host : ~IsFunction(window.host[k])
  /\ window' = [window EXCEPT !.host =
       [k \in DOMAIN window.host |-> IF k \in keys THEN Original(k) ELSE Undefined]]
  /\ UNCHANGED <<installOnlyVars, inits, lastCall>>

\* the page gets a property whose getter throws
PageThrows ==
  /\ ~window.throws
  /\ window' = [window EXCEPT !.throws = TRUE]
  /\ UNCHANGED <<installOnlyVars, inits, lastCall>>

\* the page sets window.__AURA_CAPTURE_ENABLED = false
PageDisables ==
  /\ window.__AURA_CAPTURE_ENABLED = "undefined"
  /\ window' = [window EXCEPT !.__AURA_CAPTURE_ENABLED = "false"]
  /\ UNCHANGED <<installOnlyVars, inits, lastCall>>

\* the page calls one of its helpers, with arguments every wrapper accepts,
\* and the call settles ("again": a run of init has looked for the helpers
\* after they were wrapped)
Call(key) ==
  /\ IsFunction(window.host[key])
  /\ lastCall' = [key |-> key, wrapped |-> window.host[key].wrapped,
                  again |-> \E m \in 1..MaxInits : inits[m].sawWrapper,
                  events |-> Events(window.host[key].layers)]
  /\ UNCHANGED <<installOnlyVars, window, inits>>

----------------------------------------------------------------------------
(* The content script's relay of window messages (content/main.ts:399-407) *)

\* event.source: the window of the page itself (a script of the page or
\* inject.js called window.postMessage), or another window
Sources == {"window", "frame"}
\* event.data: null, or an object with or without type and payload
WindowData ==
  {[kind |-> "null"]} \cup
  {[kind |-> "object", type |-> ty, payload |-> pl] :
     ty \in {"AURA_REQUEST_START", "AURA_REQUEST_COMPLETE", "CLEAR_ALL_API_CALLS",
             "SET_AURA_CAPTURE_STATE", "undefined"},
     pl \in {"payload", "undefined"}}
\* what chrome.runtime.sendMessage resolves with
RelayResponses == {"success", "error", "undefined"}

bridgeOnlyVars == <<browserVars, sessionVars, settingsVars, store, tasks, family,
                    captureVars, transactions, invocations, installVars, readVars, walkVars, timeVars>>

\* the listener up to its await: "sent" is the message handed to
\* chrome.runtime.sendMessage
OnWindowMessage(n, source, data) ==
  /\ relays[n] = NoRelay
  /\ \A m \in 1..MaxRelays : relays[m] = NoRelay => n <= m
  /\ LET run == [pc |-> "returned", source |-> source, data |-> data,
                 sent |-> <<>>, logged |-> <<>>, posted |-> <<>>]
     IN relays' = [relays EXCEPT ![n] =
          IF source # "window" THEN run
          ELSE IF data.kind = "null"
          THEN \* destructuring null throws in the async listener
               [run EXCEPT !.pc = "rejected"]
          ELSE [run EXCEPT !.pc = "awaiting",
                           !.sent = <<[type |-> data.type, payload |-> data.payload]>>]]
  /\ UNCHANGED bridgeOnlyVars

\* chrome.runtime.sendMessage resolves with resp
OnRelayResponse(n, resp) ==
  /\ relays[n].pc = "awaiting"
  /\ relays' = [relays EXCEPT ![n] =
       IF resp = "undefined"
       THEN \* resp.status of undefined
            [@ EXCEPT !.pc = "rejected"]
       ELSE [@ EXCEPT !.pc = "returned",
                      !.logged = IF resp = "error" THEN <<"error">> ELSE <<>>]]
  /\ UNCHANGED bridgeOnlyVars

\* a run of the listener that has ended is forgotten
ForgetRelay(n) ==
  /\ relays[n].pc \in {"returned", "rejected"}
  /\ relays' = [relays EXCEPT ![n] = NoRelay]
  /\ UNCHANGED bridgeOnlyVars

----------------------------------------------------------------------------
(* The background script under messages, tab events and browser changes *)

Browser ==
  \/ \E t \in Tabs, u \in Urls : Navigate(t, u)
  \/ \E o \in Origins, v \in SidValues \cup {NoCookie} : SetCookie(o, v)
  \/ \E t \in Tabs : CloseTab(t)
  \/ \E t \in Tabs : OnRemoved(t)

Debugger ==
  \/ \E t \in Tabs, e \in BOOLEAN : AttachCallback(t, e)
  \/ \E t \in Tabs : DetachCallback(t)

SessionSteps ==
  \/ \E i \in TaskIds : TabsGet(i)
  \/ \E i \in TaskIds : CookiesGet(i)
  \/ \E i \in TaskIds : GetTab(i)
  \/ \E i \in TaskIds, ok \in BOOLEAN : Remote(i, ok)
  \/ \E i \in TaskIds, ok \in BOOLEAN, b \in BOOLEAN : Remote2(i, ok, b)
  \/ \E i \in TaskIds : Retire(i)

StoreSteps ==
  \/ \E i \in TaskIds, ok \in BOOLEAN : Db(i, ok)
  \/ \E i \in TaskIds, ok \in BOOLEAN : StorageSet(i, ok)
  \/ \E i \in TaskIds, ok \in BOOLEAN : TrimList(i, ok)
  \/ \E i \in TaskIds, ok \in BOOLEAN : TrimDelete(i, ok)
  \/ OnChanged
  \/ initializeSettings

\* one payload of each shape a handler tells apart
RouterPayloads(ty) ==
  CASE ty = "DESCRIBE_SOBJECT" ->
         {p \in PayloadsOf(ty) : p = Undef \/ p.sObjectName \in {"", "Account"}}
    [] ty = "TOGGLE_LWC_DEBUG" ->
         {p \in PayloadsOf(ty) : p = Undef \/ p.enabled}
    [] ty = "GET_API_CALL" ->
         {p \in PayloadsOf(ty) : p = Undef \/ p.id \in {0, 1}}
    [] ty = "SET_MAX_REQUEST_ENTRIES" ->
         {p \in PayloadsOf(ty) : p = Undef \/ p.value \in {0, 1}}
    [] ty = "SET_AURA_CAPTURE_STATE" ->
         {p \in PayloadsOf(ty) : p = Undef \/ ~p.enable}
    [] ty \in {"AURA_REQUEST_START", "AURA_REQUEST_COMPLETE"} ->
         PayloadsOf(ty)
    [] OTHER -> PayloadsOf(ty)

\* the message router: every message type, the messages of one run of one
\* family, from a tab whose URL and cookie are fixed and which may close
InitRouter ==
  /\ Init
  /\ tabUrl \in [Tabs -> {UrlLightningRecord, UrlMyDomainHome, UrlOther}]
  /\ cookies \in [Origins -> {"sidA", NoCookie}]
  /\ storage = [aura |-> {}, max |-> {}]
  /\ store = StoredCalls

Next ==
  \/ \E t \in Tabs \cup {NoTab}, ty \in MessageTypes :
       \E p \in RouterPayloads(ty) : Receive(MaxTasks, t, ty, p)
  \/ \E t \in Tabs : CloseTab(t)
  \/ \E t \in Tabs : OnRemoved(t)
  \/ Debugger
  \/ SessionSteps
  \/ StoreSteps

Spec == InitRouter /\ [][Next]_vars

\* the session cache: tab events and two session-dependent messages, and a
\* browser that navigates, logs in and out and closes the tab
InitSession ==
  /\ Init
  /\ family = "session"
  /\ storage = [aura |-> {}, max |-> {}]
  /\ store = {}

SessionPayloads(ty) ==
  {p \in RouterPayloads(ty) : p # Undef /\ (ty = "DESCRIBE_SOBJECT" => p.sObjectName # "")}

NextSession ==
  \/ Browser
  \/ \E t \in Tabs : OnActivated(MaxCalls, t)
  \/ \E t \in Tabs : OnUpdated(MaxCalls, t)
  \/ \E t \in Tabs, ty \in {"DESCRIBE_SOBJECT", "TOGGLE_LWC_DEBUG"} :
       \E p \in SessionPayloads(ty) : Receive(MaxCalls, t, ty, p)
  \/ Debugger
  \/ \E i \in TaskIds : TabsGet(i)
  \/ \E i \in TaskIds : CookiesGet(i)
  \/ \E i \in TaskIds, ok \in BOOLEAN : Remote(i, ok)
  \/ \E i \in TaskIds, ok \in BOOLEAN, b \in BOOLEAN : Remote2(i, ok, b)
  \/ \E i \in TaskIds : Retire(i)

SpecSession == InitSession /\ [][NextSession]_vars

\* the state once initializeSettings has read the stored maximum "max" (a
\* set: empty when nothing is stored) and every tab, on a Lightning page
\* with a sid cookie, has been activated and its debugger attached
StartedFor(max, f) ==
  /\ tabStatus = [t \in Tabs |-> "open"]
  /\ tabUrl = [t \in Tabs |-> UrlLightningRecord]
  /\ cookies = [o \in Origins |-> "sidA"]
  /\ tabsState = [t \in Tabs |-> t]
  /\ objs = [o \in ObjIds |->
               IF o \in Tabs THEN NewSession("sidA", InstanceUrl(UrlLightningRecord))
               ELSE Free]
  /\ attachedDebuggerTabs = Tabs
  /\ attachCb = [t \in Tabs |-> 0]
  /\ detachCb = [t \in Tabs |-> 0]
  /\ isAuraCaptureEnabled = TRUE
  /\ maxRequestEntries = IF max # {} THEN CHOOSE n \in max : TRUE
                         ELSE DefaultMaxRequestEntries
  /\ settingsLoaded = TRUE
  /\ storage = [aura |-> {}, max |-> max]
  /\ changes = <<>>
  /\ store = {}
  /\ tasks = [i \in TaskIds |-> Idle]
  /\ family = f
  /\ requestDataMap = [r \in ReqIds |-> NoEntry]
  /\ bodyCalls = <<>>
  /\ now = 0
  /\ unwrapped = NoUnwrap
  /\ transactions = <<>>
  /\ network = [r \in ReqIds |-> NoRequest]
  /\ InitPage
  /\ lastUsedAt = [t \in Tabs |-> 0]
Started(max) == StartedFor(max, "log")

\* the debugger channel: the page sends Aura batches and other requests
InitCapture == Started({1})

\* the requests of a run: every form body with the URLs that are tracked,
\* one form body with the others
CaptureRequests ==
  {<<m, u, p>> \in Methods \X RequestUrls \X PostData :
     \/ m = "POST" /\ IncludesAura(u)
     \/ p.message = "absent"}
\* what the callback of Network.getResponseBody is called with: an error, no
\* body, or a body
CallbackInputs ==
  {<<TRUE, FALSE>>, <<FALSE, FALSE>>} \X {CHOOSE b \in Bodies : b.kind = "invalid"}
    \cup ({<<FALSE, TRUE>>} \X Bodies)

NextCapture ==
  \/ \E t \in Tabs, r \in {x \in 1..MaxReqs : network[x] = NoRequest} :
       \E q \in CaptureRequests :
         RequestWillBeSent(t, r, q[1], q[2], q[3], now + 1)
  \/ \E t \in Tabs, r \in 1..MaxReqs : ResponseReceived(t, r)
  \/ \E k \in 1..Len(bodyCalls), in \in CallbackInputs, at \in {now, now + 1} :
       \E uuid \in Injections(Len(Unwrapped(k, in[2])),
                              Least(Len(Unwrapped(k, in[2])), FreshUuids)) :
         BodyCallback(k, in[1][1], in[1][2], in[2], at, uuid)
  \/ \E i \in TaskIds, ok \in BOOLEAN : Save(i, ok)
  \/ \E i \in TaskIds, ok \in BOOLEAN : TrimList(i, ok)
  \/ \E i \in TaskIds, ok \in BOOLEAN : TrimDelete(i, ok)

SpecCapture == InitCapture /\ [][NextCapture]_vars

\* retention: a stored maximum of 1 or 2, and tracked requests with one
\* action each, every one reported at a later time than the one before and
\* only when the save and the trim of the one before have completed
InitRetention == \E max \in {{1}, {2}} : Started(max)

Quiet ==
  /\ \A i \in TaskIds : tasks[i] = Idle
  /\ bodyCalls = <<>>
  /\ \A r \in ReqIds : requestDataMap[r] = NoEntry

SingleAction == [message |-> "batch", actions |-> <<[id |-> 1]>>]
SingleResponses ==
  {[kind |-> "batch", actions |-> <<ResponseAction(1, st)>>] : st \in States}

NextRetention ==
  \/ /\ Quiet
     /\ now < MaxTime
     /\ \E t \in Tabs, u \in {x \in RequestUrls : x.path = <<"aura">>} :
          RequestWillBeSent(t, now + 1, "POST", u, SingleAction, now + 1)
  \/ \E t \in Tabs, r \in ReqIds : ResponseReceived(t, r)
  \/ \E k \in 1..Len(bodyCalls), body \in SingleResponses :
       \E uuid \in Injections(Len(Unwrapped(k, body)), FreshUuids) :
         BodyCallback(k, FALSE, TRUE, body, now, uuid)
  \/ \E i \in TaskIds : Save(i, TRUE)
  \/ \E i \in TaskIds : TrimList(i, TRUE)
  \/ \E i \in TaskIds : TrimDelete(i, TRUE)

SpecRetention == InitRetention /\ [][NextRetention]_vars

\* the page: calls of a wrapped function with every kind of argument, and
\* real functions that return, throw or reject
InitWrapper ==
  /\ Init
  /\ tabUrl = [t \in Tabs |-> UrlLightningRecord]
  /\ cookies = [o \in Origins |-> "sidA"]
  /\ storage = [aura |-> {}, max |-> {}]
  /\ store = {}
  /\ family = "other"

NextWrapper ==
  \/ \E i \in 1..MaxInvocations, id \in WrapperIds, a \in Arg0s, p \in Params,
        sync \in {Pending} \cup {Raised(e) : e \in Errors} :
       Invoke(i, id, a, p, sync)
  \/ \E i \in 1..MaxInvocations, r \in Outcomes : Settle(i, r)
  \/ \E i \in 1..MaxInvocations : Forget(i)

SpecWrapper == InitWrapper /\ [][NextWrapper]_vars

\* the page from its load on: the framework defines its helpers at some
\* time or never, and inject.js runs when the content script injects it
NextInstall ==
  \/ \E n \in 1..MaxInits : Inject(n)
  \/ \E n \in 1..MaxInits : Wake(n)
  \/ \E keys \in (SUBSET {APEX_RAW_FN, APEX_FN}) \ {{}} : PageDefines(keys)
  \/ PageThrows
  \/ PageDisables
  \/ \E key \in {APEX_RAW_FN, APEX_FN} : Call(key)

\* batches whose save-then-trim chains run side by side: two requests, each
\* answered in full, with store operations that succeed
RaceReqs == 2
RaceBatch(n) == [a \in 1..n |-> [id |-> a]]
RaceResponse(n) == [a \in 1..n |-> ResponseAction(a, "SUCCESS")]
NextRace ==
  \/ \E t \in Tabs, r \in {x \in 1..RaceReqs : network[x] = NoRequest},
        u \in {x \in RequestUrls : x.path = <<"aura">>}, n \in 1..MaxBatch :
       RequestWillBeSent(t, r, "POST", u,
                         [message |-> "batch", actions |-> RaceBatch(n)], now + 1)
  \/ \E t \in Tabs, r \in 1..RaceReqs : ResponseReceived(t, r)
  \/ \E k \in 1..Len(bodyCalls), n \in 1..MaxBatch :
       LET body == [kind |-> "batch", actions |-> RaceResponse(n)] IN
       \E uuid \in Injections(Len(Unwrapped(k, body)),
                              Least(Len(Unwrapped(k, body)), FreshUuids)) :
         BodyCallback(k, FALSE, TRUE, body, now, uuid)
  \/ \E i \in TaskIds : Save(i, TRUE)
  \/ \E i \in TaskIds : TrimList(i, TRUE)
  \/ \E i \in TaskIds : TrimDelete(i, TRUE)

SpecRace == InitRetention /\ [][NextRace]_vars

\* chrome.debugger.onEvent, method Network.loadingFailed: the request ends
\* without a response; the listener has no branch for the method
\* (index.ts:189-267)
LoadingFailed(tab, requestId) ==
  /\ network[requestId] # NoRequest
  /\ network[requestId].state = "sent"
  /\ network' = [network EXCEPT ![requestId].state = "failed"]
  /\ UNCHANGED <<browserVars, sessionVars, settingsVars, store, tasks, family,
                 requestDataMap, bodyCalls, now, unwrapped, transactions, pageVars, timeVars>>

\* requests that end with a response or without one
NextPending ==
  \/ \E t \in Tabs, r \in {x \in 1..RaceReqs : network[x] = NoRequest},
        u \in {x \in RequestUrls : x.path = <<"aura">>}, n \in 1..MaxBatch :
       RequestWillBeSent(t, r, "POST", u,
                         [message |-> "batch", actions |-> RaceBatch(n)], now + 1)
  \/ \E t \in Tabs, r \in 1..RaceReqs : ResponseReceived(t, r)
  \/ \E t \in Tabs, r \in 1..RaceReqs : LoadingFailed(t, r)
  \/ \E k \in 1..Len(bodyCalls), n \in 1..MaxBatch :
       LET body == [kind |-> "batch", actions |-> RaceResponse(n)] IN
       \E uuid \in Injections(Len(Unwrapped(k, body)),
                              Least(Len(Unwrapped(k, body)), FreshUuids)) :
         BodyCallback(k, FALSE, TRUE, body, now, uuid)
  \/ \E i \in TaskIds : Save(i, TRUE)
  \/ \E i \in TaskIds : TrimList(i, TRUE)
  \/ \E i \in TaskIds : TrimDelete(i, TRUE)

\* everything that can happen does happen in the end
SpecPending == InitCapture /\ [][NextPending]_vars /\ WF_vars(NextPending)

\* capture switched off and on from the settings page while calls are
\* captured
NextGate ==
  \/ \E t \in Tabs, p \in PayloadsOf("SET_AURA_CAPTURE_STATE") \ {Undef} :
       Receive(MaxTasks, t, "SET_AURA_CAPTURE_STATE", p)
  \/ \E i \in TaskIds : TabsGet(i)
  \/ \E i \in TaskIds : CookiesGet(i)
  \/ \E i \in TaskIds, ok \in BOOLEAN : StorageSet(i, ok)
  \/ OnChanged
  \/ \E i \in TaskIds : Retire(i)
  \/ \E t \in Tabs, r \in {x \in 1..MaxReqs : network[x] = NoRequest},
        u \in {x \in RequestUrls : x.path = <<"aura">>} :
       RequestWillBeSent(t, r, "POST", u, SingleAction, now + 1)
  \/ \E t \in Tabs, r \in 1..MaxReqs : ResponseReceived(t, r)
  \/ \E k \in 1..Len(bodyCalls), body \in SingleResponses :
       \E uuid \in Injections(Len(Unwrapped(k, body)), Least(1, FreshUuids)) :
         BodyCallback(k, FALSE, TRUE, body, now, uuid)
  \/ \E i \in TaskIds : Save(i, TRUE)
  \* the store stays below the default limit: trimDatabase deletes nothing
  \/ \E i \in TaskIds : TrimList(i, TRUE)

SpecGate == StartedFor({}, "settings") /\ [][NextGate]_vars

\* a tab on a Lightning page activated and updated while its sid cookie
\* changes: each invocation of initializeTabState runs once, and the
\* chrome.cookies.get promises resolve in any order
ReadCalls == 2
InitReads ==
  /\ Init
  /\ tabUrl = [t \in Tabs |-> UrlLightningRecord]
  /\ cookies \in [Origins -> {"sidA"}]
  /\ storage = [aura |-> {}, max |-> {}]
  /\ store = {}
  /\ family = "session"

NextReads ==
  \/ \E t \in Tabs : OnActivated(ReadCalls, t)
  \/ \E t \in Tabs : OnUpdated(ReadCalls, t)
  \/ \E o \in Origins, v \in SidValues \cup {NoCookie} : SetCookie(o, v)
  \/ Debugger
  \/ \E i \in TaskIds : TabsGet(i)
  \/ \E i \in TaskIds : CookiesRead(i)
  \/ \E i \in TaskIds : CookiesResolved(i)

SpecReads == InitReads /\ [][NextReads]_vars

\* describes of one tab side by side with activations of the tab, while
\* its sid cookie changes
NextDescribe ==
  \/ \E t \in Tabs : OnActivated(ReadCalls, t)
  \/ \E t \in Tabs, p \in SessionPayloads("DESCRIBE_SOBJECT") :
       Receive(ReadCalls, t, "DESCRIBE_SOBJECT", p)
  \/ \E o \in Origins, v \in SidValues : SetCookie(o, v)
  \/ \E t \in Tabs, e \in BOOLEAN : AttachCallback(t, e)
  \/ \E i \in TaskIds : TabsGet(i)
  \/ \E i \in TaskIds : CookiesGet(i)
  \/ \E i \in TaskIds, ok \in BOOLEAN : Remote(i, ok)
  \/ \E i \in TaskIds : Retire(i)

SpecDescribe == InitReads /\ [][NextDescribe]_vars

\* describes of one tab side by side on one session, the server returning
\* one of two descriptions
DescribeResults == {"v1", "v2"}
NextMisses ==
  \/ \E t \in Tabs, p \in SessionPayloads("DESCRIBE_SOBJECT") :
       Receive(ReadCalls, t, "DESCRIBE_SOBJECT", p)
  \/ \E t \in Tabs, e \in BOOLEAN : AttachCallback(t, e)
  \/ \E i \in TaskIds : TabsGet(i)
  \/ \E i \in TaskIds : CookiesGet(i)
  \/ \E i \in TaskIds, ok \in BOOLEAN, r \in DescribeResults :
       RemoteReturns(i, ok, r)
  \/ \E i \in TaskIds : Retire(i)

SpecMisses == InitReads /\ [][NextMisses]_vars

\* the log read back: the two list messages against every store of up to
\* four calls, from a tab with a session or without one
ListMessages == {"LIST_API_CALLS", "LIST_ALL_API_CALLS"}
InitList ==
  /\ Init
  /\ tabUrl \in [Tabs -> {UrlLightningRecord, UrlOther}]
  /\ cookies = [o \in Origins |-> "sidA"]
  /\ storage = [aura |-> {}, max |-> {}]
  /\ family = "log"

NextList ==
  \/ \E t \in Tabs, ty \in ListMessages :
       \E p \in RouterPayloads(ty) : Receive(ReadCalls, t, ty, p)
  \/ \E t \in Tabs, e \in BOOLEAN : AttachCallback(t, e)
  \/ \E i \in TaskIds : TabsGet(i)
  \/ \E i \in TaskIds : CookiesGet(i)
  \/ \E i \in TaskIds, ok \in BOOLEAN : Db(i, ok)
  \/ \E i \in TaskIds : Retire(i)

SpecList == InitList /\ [][NextList]_vars

\* discovery: findPaths on every graph of a few objects, cycles and shared
\* objects included
NextDiscovery ==
  \/ walk.pc = "unbuilt" /\ \E g \in Graphs : PageBuilds(g)
  \/ findPathsCall
  \/ findPathsEntry
  \/ findPathsReturn

SpecDiscovery == InitWrapper /\ [][NextDiscovery]_vars

\* the retention limit changed from the settings page while calls are
\* captured: the client of services/client.ts sends SET_SETTINGS, an older
\* client SET_MAX_REQUEST_ENTRIES; storage and store operations succeed
LimitAsked == 2
LimitMessages ==
  {<<"SET_SETTINGS", [k |-> "settings", maxRequestEntries |-> LimitAsked]>>,
   <<"SET_MAX_REQUEST_ENTRIES", [k |-> "max", value |-> LimitAsked]>>}
InitLimit == \E f \in {"settings", "other"} : StartedFor({}, f)

\* nothing is in progress in the background
AtRest ==
  /\ \A i \in TaskIds : ~Running(i)
  /\ bodyCalls = <<>>
  /\ \A r \in ReqIds : requestDataMap[r] = NoEntry
  /\ transactions = <<>>
  /\ changes = <<>>

NextLimit ==
  \/ /\ AtRest
     /\ \E t \in Tabs, m \in LimitMessages : Receive(MaxTasks, t, m[1], m[2])
  \/ \E i \in TaskIds : TabsGet(i)
  \/ \E i \in TaskIds : CookiesGet(i)
  \/ \E i \in TaskIds : StorageSet(i, TRUE)
  \/ OnChanged
  \/ /\ AtRest
     /\ now < MaxTime
     /\ \E t \in Tabs, u \in {x \in RequestUrls : x.path = <<"aura">>} :
          RequestWillBeSent(t, now + 1, "POST", u, SingleAction, now + 1)
  \/ \E t \in Tabs, r \in ReqIds : ResponseReceived(t, r)
  \/ \E k \in 1..Len(bodyCalls),
        body \in {x \in SingleResponses : x.actions[1].state = "SUCCESS"} :
       \E uuid \in Injections(Len(Unwrapped(k, body)), Least(1, FreshUuids)) :
         BodyCallback(k, FALSE, TRUE, body, now, uuid)
  \/ \E i \in TaskIds : Save(i, TRUE)
  \/ \E i \in TaskIds : TrimList(i, TRUE)
  \/ \E i \in TaskIds : TrimDelete(i, TRUE)

SpecLimit == InitLimit /\ [][NextLimit]_vars

\* the content script under the messages of the page and of other windows
NextBridge ==
  \/ \E n \in 1..MaxRelays, source \in Sources, data \in WindowData :
       OnWindowMessage(n, source, data)
  \/ \E n \in 1..MaxRelays, resp \in RelayResponses : OnRelayResponse(n, resp)
  \/ \E n \in 1..MaxRelays : ForgetRelay(n)

SpecBridge == InitWrapper /\ [][NextBridge]_vars

\* a timer that was set fires
SpecInstall ==
  InitWrapper /\ [][NextInstall]_vars /\ \A n \in 1..MaxInits : WF_vars(Wake(n))

\* the life of a session: a tab that stays on a Lightning page with its
\* cookie, describe requests for every name, and time passing between them
InitLifetime ==
  /\ Init
  /\ tabUrl = [t \in Tabs |-> UrlLightningRecord]
  /\ cookies = [o \in Origins |-> "sidA"]
  /\ storage = [aura |-> {}, max |-> {}]
  /\ store = {}
  /\ family = "session"

NextLifetime ==
  \/ Tick
  \/ \E t \in Tabs, p \in PayloadsOf("DESCRIBE_SOBJECT") :
       p # Undef /\ Receive(MaxCalls, t, "DESCRIBE_SOBJECT", p)
  \/ \E t \in Tabs, e \in BOOLEAN : AttachCallback(t, e)
  \/ \E i \in TaskIds : TabsGet(i)
  \/ \E i \in TaskIds : CookiesGet(i)
  \/ \E i \in TaskIds, ok \in BOOLEAN : Remote(i, ok)
  \/ \E i \in TaskIds : Retire(i)

SpecLifetime == InitLifetime /\ [][NextLifetime]_vars

----------------------------------------------------------------------------
(* Properties of the message router *)

FromTab(i) == tasks[i] # Idle /\ tasks[i].tab \in Tabs

\* C2: every message sent from a tab is answered exactly once, whatever its
\* type, payload and outcome: no exception or rejection leaves the handler
\* unanswered, and no message is answered twice.
C2_ExactlyOneResponse ==
  \A i \in TaskIds :
    FromTab(i) /\ tasks[i].type \in MessageTypes =>
      /\ ~tasks[i].escaped
      /\ Len(tasks[i].responses) <= 1
      /\ tasks[i].pc = "done" => Len(tasks[i].responses) = 1

\* C3: once the router has handled AURA_REQUEST_START for an id, the log
\* store holds a PENDING record for that id (which COMPLETE then moves to
\* SUCCESS or ERROR).
C3_StartStoresPending ==
  \A i \in TaskIds :
    FromTab(i) /\ tasks[i].type = "AURA_REQUEST_START" /\ tasks[i].pc = "done" =>
      \E r \in store : r.id = tasks[i].payload.id /\ r.status = "PENDING"

\* C7: a session-dependent operation from a tab that has no session after
\* re-validation is answered with the "no session" error, once; its handler
\* is not run and no remote call is made.
C7_NoSessionError ==
  \A i \in TaskIds :
    FromTab(i) /\ tasks[i].type \in SessionOps /\ tasks[i].session = "no" =>
      /\ tasks[i].pc = "done"
      /\ tasks[i].responses = <<ErrorResponse(NoSessionMessage, "")>>
      /\ tasks[i].remote = 0
      /\ tasks[i].state = 0
C7_Witness ==
  \E i \in TaskIds :
    /\ FromTab(i) /\ tasks[i].type \in SessionOps /\ tasks[i].session = "no"
    /\ tasks[i].pc = "done"

C8_Answered ==
  \A i \in TaskIds :
    FromTab(i) /\ tasks[i].type \notin HandledTypes /\ tasks[i].type \in MessageTypes =>
      /\ ~tasks[i].escaped
      /\ tasks[i].responses =
           IF tasks[i].pc = "done"
           THEN <<ErrorResponse("Unknown message type: ", tasks[i].type)>>
           ELSE <<>>
C8_Frame ==
  \A i \in TaskIds :
    (/\ FromTab(i) /\ tasks[i].type \notin HandledTypes
     /\ tasks[i].type \in MessageTypes /\ tasks'[i] # tasks[i]) =>
      /\ store' = store
      /\ settingsVars' = settingsVars
      /\ tabsState' =
           CASE tasks[i].pc = "tabsGet" -> UrlOutcome(tasks[i].tab).ts
             [] tasks[i].pc = "cookiesGet" ->
                  CookieOutcome(tasks[i].tab, tasks[i].instanceUrl,
                                cookies[tasks[i].instanceUrl]).ts
             [] OTHER -> tabsState
\* C8: a message of a type the switch has no case for is answered with the
\* error response naming the type, once, when its re-validation ends; no
\* step of its handling changes the log store or the settings, or the
\* session map other than as initializeTabState does.
C8_UnknownType == []C8_Answered /\ [][C8_Frame]_vars
C8_Witness ==
  \E i \in TaskIds :
    /\ FromTab(i) /\ tasks[i].type \notin HandledTypes
    /\ tasks[i].type \in MessageTypes /\ tasks[i].pc = "done"

----------------------------------------------------------------------------
(* Properties of the session cache *)

InitPending(i) == tasks[i] # Idle /\ tasks[i].found = "unknown" /\ tasks[i].pc # "done"

\* C6: once onRemoved has been handled for a tab and no initializeTabState
\* call for it is still in flight, tabsState has no entry for the tab.
C6_NoSessionForClosedTab ==
  \A t \in Tabs :
    (tabStatus[t] = "gone" /\ \A i \in TaskIds : ~(InitPending(i) /\ tasks[i].tab = t))
      => tabsState[t] = 0

C9_Step ==
  \A i \in TaskIds :
    (/\ InitPending(i) /\ tasks'[i] # Idle
     /\ tasks'[i].found \in {"no match", "no cookie"}) =>
      tabsState'[tasks[i].tab] = 0
\* C9: the step in which initializeTabState returns having found a URL that
\* does not match the domain pattern, or no sid cookie for the normalized
\* origin, leaves no entry for the tab in tabsState.
C9_EvictsOnMismatch == [][C9_Step]_vars
C9_Witness ==
  \E i \in TaskIds :
    /\ tasks[i] # Idle /\ tasks[i].found \in {"no match", "no cookie"}
    /\ tasks[i].had # 0 /\ tabsState[tasks[i].tab] = 0

C10_Step ==
  \A i \in TaskIds :
    (InitPending(i) /\ tasks'[i] # Idle) =>
      LET t == tasks[i].tab
          old == tabsState[t]
          new == tabsState'[t]
      IN /\ tasks'[i].found = "same credential" =>
              new = old /\ objs'[old] = objs[old]
         /\ tasks'[i].found = "new credential" =>
              /\ new # 0
              /\ new \notin Referenced(tabsState, tasks)
              /\ objs'[new] = NewSession(cookies[tasks[i].instanceUrl],
                                         tasks[i].instanceUrl)
\* C10: when initializeTabState reads a cookie equal to the credential of
\* the tab's session, the entry and its TabState object (connection,
\* describe cache, debug flags) stay as they are; when the credential
\* differs or the tab has no entry, the entry becomes a new object with a
\* new connection for the cookie value, an empty describe cache and cleared
\* debug flags.
C10_SameOrReplaced == [][C10_Step]_vars
C10_Witness ==
  \E i \in TaskIds :
    /\ tasks[i] # Idle /\ tasks[i].found = "same credential"
    /\ tasks[i].had # 0 /\ tabsState[tasks[i].tab] = tasks[i].had
    /\ \E n \in SObjectNames :
         objs[tasks[i].had].sObjectDescribeCache[n] # Absent

----------------------------------------------------------------------------
(* Properties of the debugger channel *)

\* the request actions that have a response action of their id
C1_Matched(R, S) ==
  {i \in 1..Len(R) : \E j \in 1..Len(S) : S[j].id = R[i].id}
C1_Rank(x, X) == Cardinality({y \in X : y < x}) + 1
C1_Step ==
  \A k \in 1..Len(bodyCalls) :
    (/\ Len(bodyCalls') = Len(bodyCalls) - 1
     /\ unwrapped'.k = "unwrapped") =>
      LET R == requestDataMap[bodyCalls[k].requestId].postData.actions
          S == unwrapped'.response
          M == C1_Matched(R, S)
          new == {i \in TaskIds : tasks[i] = Idle /\ tasks'[i] # Idle}
      IN /\ unwrapped'.request = R
         /\ Cardinality(new) = Cardinality(M)
         /\ Len(transactions') = Len(transactions) + Cardinality(new)
         /\ \A i \in new :
              /\ tasks'[i].type = "save" /\ tasks'[i].pc = "save"
              /\ transactions'[Len(transactions) + C1_Rank(i, new)] = i
              /\ \E m \in M :
                   /\ C1_Rank(m, M) = C1_Rank(i, new)
                   /\ tasks'[i].payload.requestPayload = R[m]
                   /\ tasks'[i].payload.responsePayload.id = R[m].id
\* C1: the step in which the response callback unwraps a batch with request
\* actions R and response actions S starts exactly one save for each request
\* action whose id is the id of some response action, in the order of the
\* request, and none for a request action without one.
C1_BatchUnwrap == [][C1_Step]_vars
C1_Witness ==
  /\ unwrapped # NoUnwrap /\ unwrapped.k = "unwrapped"
  /\ [i \in 1..Len(unwrapped.request) |-> unwrapped.request[i].id] = <<1, 2, 3>>
  /\ [j \in 1..Len(unwrapped.response) |-> unwrapped.response[j].id] = <<1, 3>>
  /\ Cardinality({i \in TaskIds : PendingSave(i)}) = 2
  /\ {tasks[i].payload.requestPayload.id : i \in {j \in TaskIds : PendingSave(j)}}
       = {1, 3}

----------------------------------------------------------------------------
(* Properties of retention *)

\* C4: when records with strictly increasing requestedAt are saved one at a
\* time, each save followed by its trimDatabase run to completion, then once
\* more than maxRequestEntries have been saved (the n-th has requestedAt n,
\* and "now" is the number saved), exactly maxRequestEntries records remain
\* and they are the ones with the largest requestedAt.
C4_Retention ==
  (Quiet /\ now > maxRequestEntries) =>
    /\ Cardinality(store) = maxRequestEntries
    /\ {r.requestedAt : r \in store} = (now - maxRequestEntries + 1)..now
C4_Witness ==
  /\ Quiet /\ maxRequestEntries = 2 /\ now = maxRequestEntries + 2
  /\ Cardinality(store) = 2

----------------------------------------------------------------------------
(* Properties of the wrapper *)

\* C5: the wrapper is transparent: every invocation that has settled has
\* invoked the real function exactly once with the original arguments, and
\* its caller has received the real function's return value if it returned
\* and the real function's own error if it threw or rejected.
C5_Transparent ==
  \A i \in 1..MaxInvocations :
    (invocations[i] # NoInvocation /\ invocations[i].pc = "settled") =>
      /\ invocations[i].invoked = 1
      /\ invocations[i].with = invocations[i].args
      /\ invocations[i].outcome = invocations[i].real

C13_Events(i) ==
  [n \in 1..Len(invocations[i].posted) |->
     <<invocations[i].posted[n].type, invocations[i].posted[n].id>>]
\* C13: every invocation posts exactly one START before the real function
\* is invoked and exactly one COMPLETE of the same id once the real call has
\* settled, and invocations in progress have different ids.
C13_StartThenComplete ==
  \A i \in 1..MaxInvocations :
    invocations[i] # NoInvocation =>
      /\ invocations[i].pc = "awaiting" =>
           /\ invocations[i].real = Pending
           /\ C13_Events(i) = <<<<"AURA_REQUEST_START", invocations[i].id>>>>
      /\ invocations[i].pc = "settled" =>
           /\ invocations[i].real # Pending
           /\ C13_Events(i) = <<<<"AURA_REQUEST_START", invocations[i].id>>,
                                <<"AURA_REQUEST_COMPLETE", invocations[i].id>>>>
      /\ \A j \in 1..MaxInvocations :
           (j # i /\ invocations[j] # NoInvocation) =>
             invocations[j].id # invocations[i].id

----------------------------------------------------------------------------
(* Properties of the life of a session *)

\* an idle threshold shorter than the run, and a capacity smaller than the
\* number of names described
C11_IdleThreshold == MaxTime - 2
C12_Capacity == Cardinality(SObjectNames) - 1

C11_Step ==
  \A i \in TaskIds :
    (/\ InitPending(i) /\ tasks'[i] # Idle /\ tasks'[i].found # "unknown"
     /\ tabsState[tasks[i].tab] # 0
     /\ now - lastUsedAt[tasks[i].tab] > C11_IdleThreshold) =>
      tabsState'[tasks[i].tab] # tabsState[tasks[i].tab]
\* C11: an access to a tab's session that comes more than the idle threshold
\* after the previous access does not find the session the tab had: it has
\* been evicted.
C11_IdleEviction == [][C11_Step]_vars

\* C12: the describe cache of a session never holds more than its capacity
\* of entries.
C12_BoundedCache ==
  \A o \in ObjIds :
    objs[o] # Free =>
      Cardinality({n \in SObjectNames : objs[o].sObjectDescribeCache[n] # Absent})
        <= C12_Capacity

\* C14: wrapping is idempotent: whatever runs of init came before, a call of
\* a wrapped helper posts exactly one START and one COMPLETE, and makeLogger
\* gives back an already wrapped function as it is.
C14_WrappedOnce ==
  /\ lastCall.wrapped =>
       lastCall.events = <<"AURA_REQUEST_START", "AURA_REQUEST_COMPLETE">>
  /\ \A k \in DOMAIN window.host :
       (IsFunction(window.host[k]) /\ window.host[k].wrapped) =>
         /\ window.host[k].layers = 1
         /\ makeLogger(window.host[k]) = window.host[k]
C14_Witness ==
  /\ lastCall.key = APEX_FN
  /\ lastCall.wrapped
  /\ lastCall.again
  /\ lastCall.events = <<"AURA_REQUEST_START", "AURA_REQUEST_COMPLETE">>
  /\ \E n \in 1..MaxInits : inits[n].pc = "installed"
  /\ \E n \in 1..MaxInits : inits[n].pc = "gaveUp" /\ inits[n].sawWrapper

C15_Ended(n) == inits[n].pc \in {"installed", "returned", "rejected", "gaveUp"}
C15_Bounded ==
  \A n \in 1..MaxInits :
    /\ inits[n].attempts <= RETRIES
    /\ inits[n].pc = "gaveUp" => inits[n].attempts = RETRIES
    /\ inits[n].pc = "installed" =>
         \A k \in DOMAIN window.host :
           IsFunction(window.host[k]) /\ window.host[k].wrapped
C15_Step ==
  \A n \in 1..MaxInits :
    /\ C15_Ended(n) => inits'[n] = inits[n]
    /\ inits'[n] # inits[n] =>
         \/ window'.host = window.host
         \/ /\ inits'[n].pc = "installed"
            /\ \A k \in DOMAIN window.host : ~window.host[k].wrapped
\* C15: a run of init ends: it looks for the helpers at most RETRIES times,
\* and ends with the wrappers installed, once, or with nothing installed by
\* it; it gives up after RETRIES attempts without a find and does nothing
\* after it has ended.
C15_InitTerminates ==
  /\ []C15_Bounded
  /\ [][C15_Step]_vars
  /\ \A n \in 1..MaxInits : (inits[n] # NoInit) ~> C15_Ended(n)
C15_Witness ==
  /\ \E n \in 1..MaxInits : inits[n].pc = "gaveUp" /\ ~inits[n].sawWrapper
  /\ \E n \in 1..MaxInits : inits[n].pc = "installed" /\ inits[n].attempts > 1

\* C16: a run of init never ends in an exception that nothing catches,
\* whatever the page holds.
C16_NeverRejects ==
  \A n \in 1..MaxInits : inits[n].pc # "rejected"

C17_Qualifies(r) ==
  /\ network[r] # NoRequest
  /\ network[r].method = "POST"
  /\ network[r].url.path = <<"aura">>
  /\ network[r].url.query \cap {RecordUiParam, ApexActionParam} # {}
\* C17: the pending map holds an entry only for a POST to the /aura endpoint
\* whose query has aura.RecordUi.getRecordWithFields (type RecordUi) or
\* aura.ApexAction.execute (type ApexAction), and only such a request leads
\* to stored records.
C17_Filter ==
  /\ \A r \in ReqIds :
       requestDataMap[r] # NoEntry =>
         /\ C17_Qualifies(r)
         /\ requestDataMap[r].type =
              IF RecordUiParam \in network[r].url.query THEN "RecordUi"
              ELSE "ApexAction"
  /\ (bodyCalls # <<>> \/ store # {}) => \E r \in ReqIds : C17_Qualifies(r)

C18_Step ==
  Len(bodyCalls') < Len(bodyCalls) =>
    /\ requestDataMap[unwrapped'.requestId] # NoEntry
    /\ requestDataMap'[unwrapped'.requestId] = NoEntry
    /\ unwrapped'.failed =>
         /\ unwrapped'.calls = <<>>
         /\ tasks' = tasks
         /\ transactions' = transactions
         /\ store' = store
\* C18: when the fetch of the response body of a tracked request completes,
\* with or without a body, the pending entry of the request is removed, and
\* a fetch that failed or gave no body saves no record.
C18_FetchDropsEntry == [][C18_Step]_vars
C18_Witness ==
  /\ unwrapped # NoUnwrap
  /\ unwrapped.failed
  /\ network[unwrapped.requestId].state = "responded"
  /\ requestDataMap[unwrapped.requestId] = NoEntry
  /\ bodyCalls = <<>>
  /\ store = {}

C19_Step ==
  \A t \in Tabs :
    attachCb'[t] > attachCb[t] =>
      /\ t \notin attachedDebuggerTabs
      /\ attachCb[t] = 0
      /\ \E i \in TaskIds :
           /\ tasks[i] # Idle
           /\ tasks[i].tab = t
           /\ tasks[i].pc = "cookiesGet"
           /\ cookies[tasks[i].instanceUrl] # NoCookie
\* C19: chrome.debugger.attach is issued for a tab only when the tab is not
\* attached and no attach of it is in flight, and only by a re-validation
\* that found a Salesforce URL and the sid cookie.
C19_AttachOnce == [][C19_Step]_vars

\* C20: a tab that was closed or found not to qualify (its session is
\* deleted), with no attach or detach callback left to run, is not in
\* attachedDebuggerTabs.
C20_Detached ==
  \A t \in Tabs :
    (tabsState[t] = 0 /\ attachCb[t] = 0 /\ detachCb[t] = 0) =>
      t \notin attachedDebuggerTabs

\* a step in which trimDatabase, run by invocation i, ends on a failure: its
\* listing found records to delete and none is deleted
C21_Fails(i) ==
  /\ tasks[i] # Idle
  /\ tasks'[i] # tasks[i]
  /\ store' = store
  /\ \/ /\ tasks[i].pc = "trimList"
        /\ idsToDelete(listAll(store), maxRequestEntries) # {}
        /\ tasks'[i] = Idle \/ tasks'[i].pc # "trimDelete"
     \/ /\ tasks[i].pc = "trimDelete"
        /\ tasks[i].ids \cap {r.id : r \in store} # {}
C21_Step ==
  \A i \in TaskIds :
    C21_Fails(i) =>
      /\ tasks[i].type = "save" => tasks[i].payload \in store'
      /\ tasks'[i] # Idle =>
           /\ ~tasks'[i].escaped
           /\ tasks'[i].responses = tasks[i].responses
\* C21: a failure of trimDatabase, in its listing or in its delete, is caught:
\* nothing propagates from it, the record whose save started the trim stays
\* stored and no response changes.
C21_TrimFailureContained == [][C21_Step]_vars
C21_Witness ==
  /\ Cardinality(store) > maxRequestEntries
  /\ \A i \in TaskIds : tasks[i] = Idle
  /\ transactions = <<>>
  /\ unwrapped # NoUnwrap
  /\ unwrapped.k = "unwrapped"
  /\ \A n \in 1..Len(unwrapped.calls) : unwrapped.calls[n] \in store

C22_Record(call, entry, tab, R, S) ==
  /\ call.type = entry.type
  /\ call.tabId = tab
  /\ call.requestedAt = entry.requestedAt
  /\ \E m \in 1..Len(R) : call.requestPayload = R[m]
  /\ \E j \in 1..Len(S) :
       /\ call.responsePayload = S[j]
       /\ S[j].id = call.requestPayload.id
  /\ call.status = "Success" <=> call.responsePayload.state = "SUCCESS"
  /\ call.status = "Error" <=> call.responsePayload.state # "SUCCESS"
C22_Step ==
  /\ \A call \in store' :
       /\ call.status = "Success" <=> call.responsePayload.state = "SUCCESS"
       /\ call.status = "Error" <=> call.responsePayload.state # "SUCCESS"
  /\ \A k \in 1..Len(bodyCalls) :
       (/\ Len(bodyCalls') = Len(bodyCalls) - 1
        /\ unwrapped'.k = "unwrapped") =>
         LET entry == requestDataMap[bodyCalls[k].requestId]
             R == entry.postData.actions
             S == unwrapped'.response
             new == {i \in TaskIds : tasks[i] = Idle /\ tasks'[i] # Idle}
         IN /\ \A i \in new :
                 C22_Record(tasks'[i].payload, entry, bodyCalls[k].tabId, R, S)
            /\ (R = <<[id |-> 1]>> /\ S = <<ResponseAction(1, "SUCCESS")>>) =>
                 /\ Cardinality(new) = 1
                 /\ \A i \in new :
                      /\ tasks'[i].payload.status = "Success"
                      /\ tasks'[i].payload.responsePayload.returnValue = [x |-> 1]
\* C22: every record the unwrap loop produces has the request action as
\* requestPayload, a response action of the same id as responsePayload, the
\* type and the time of the tracked request, the tab of the event, and status
\* Success exactly when the state of the response action is SUCCESS, Error
\* otherwise; one request action of id 1 with one response action of id 1,
\* state SUCCESS and returnValue {x: 1} gives one record, of status Success,
\* with that return value.
C22_UnwrappedRecord == [][C22_Step]_vars
C22_Witness ==
  /\ unwrapped # NoUnwrap /\ unwrapped.k = "unwrapped"
  /\ unwrapped.request = <<[id |-> 1]>>
  /\ unwrapped.response = <<ResponseAction(1, "SUCCESS")>>
  /\ \A i \in TaskIds : tasks[i] = Idle
  /\ Cardinality(store) = 1
  /\ \A call \in store :
       /\ call.status = "Success"
       /\ call.responsePayload.returnValue = [x |-> 1]
       /\ call.requestPayload = [id |-> 1]

\* C23: the relay sends to the background only messages that the page's own
\* window posted and whose type is AURA_REQUEST_START or
\* AURA_REQUEST_COMPLETE, with the type and the payload they had, and it
\* posts nothing to the page: an error response is logged only.
C23_RelayFilter ==
  \A n \in 1..MaxRelays :
    relays[n] # NoRelay =>
      /\ relays[n].posted = <<>>
      /\ relays[n].sent # <<>> =>
           /\ relays[n].source = "window"
           /\ relays[n].data.kind = "object"
           /\ relays[n].data.type \in {"AURA_REQUEST_START", "AURA_REQUEST_COMPLETE"}
           /\ relays[n].sent =
                <<[type |-> relays[n].data.type, payload |-> relays[n].data.payload]>>

C25_MirrorConsistent ==
  (/\ settingsLoaded
   /\ changes = <<>>
   /\ \A i \in TaskIds : ~Running(i)) =>
    /\ storage.aura # {} => storage.aura = {isAuraCaptureEnabled}
    /\ storage.max # {} => storage.max = {maxRequestEntries}

\* C26: an invocation that issues a call on state.jsforceConnection uses a
\* connection built for that invocation: its own initializeTabState created
\* the TabState object, connection included, from the cookie it read; no
\* invocation calls through a connection an earlier one built.
C26_Step ==
  \A i \in TaskIds :
    (/\ tasks[i] # Idle
     /\ tasks'[i] # Idle
     /\ tasks'[i].remote > tasks[i].remote) =>
      tasks'[i].found = "new credential"
C26_FreshConnection == [][C26_Step]_vars

\* C27: save-then-trim chains that interleave at their awaits leave, once
\* every one of them has completed, at most maxRequestEntries records in the
\* store (the limit does not change and nothing clears the store).
C27_TrimsConverge ==
  (/\ \A i \in TaskIds : tasks[i] = Idle
   /\ transactions = <<>>) =>
    Cardinality(store) <= maxRequestEntries
C27_Witness ==
  /\ \A i \in TaskIds : tasks[i] = Idle
  /\ transactions = <<>>
  /\ \A r \in 1..RaceReqs : network[r] # NoRequest /\ network[r].state = "responded"
  /\ unwrapped # NoUnwrap
  /\ Len(unwrapped.calls) = MaxBatch
  /\ Cardinality(store) = maxRequestEntries
  /\ \E c \in store : \A n \in 1..Len(unwrapped.calls) : c # unwrapped.calls[n]

\* C28: every entry that requestWillBeSent adds to requestDataMap is removed
\* in the end, whether the request is answered or ends without a response.
C28_EntriesRemoved ==
  \A r \in 1..RaceReqs :
    (requestDataMap[r] # NoEntry) ~> (requestDataMap[r] = NoEntry)

\* C29: while isAuraCaptureEnabled is false the debugger channel starts no
\* save: not for a request tracked before capture was switched off, and not
\* from a Network.getResponseBody callback that was in flight when it was.
C29_Step ==
  \A i \in TaskIds :
    (tasks[i] = Idle /\ tasks'[i] # Idle /\ tasks'[i].type = "save") =>
      isAuraCaptureEnabled
C29_NoSaveWhileDisabled == [][C29_Step]_vars

\* C30: once the concurrent initializeTabState calls for a tab have all
\* completed, the tab's session holds the cookie value that was read last for
\* the tab (and there is no session when the last read found no cookie).
C30_LatestCredential ==
  (\A i \in 1..ReadCalls : tasks[i] # Idle /\ tasks[i].pc = "done") =>
    \A t \in Tabs :
      lastRead[t] # Unread =>
        IF lastRead[t] = NoCookie THEN tabsState[t] = 0
        ELSE /\ tabsState[t] # 0
             /\ objs[tabsState[t]].sessionId = lastRead[t]

\* a describe result is marked with the credential it was fetched with:
\* every cache holds results of its own session's credential only
C31_OwnCredential ==
  \A o \in ObjIds :
    objs[o] # Free =>
      \A n \in SObjectNames :
        objs[o].sObjectDescribeCache[n] \in {Absent, objs[o].sessionId}
\* a describe answered without a remote call is answered with a result
\* fetched with the credential of the session the tab has at that moment
C31_Step ==
  \A i \in TaskIds :
    (/\ tasks[i] # Idle /\ tasks[i].pc # "done"
     /\ tasks'[i] # Idle /\ tasks'[i].pc = "done"
     /\ tasks'[i].type = "DESCRIBE_SOBJECT"
     /\ tasks'[i].remote = 0
     /\ tasks'[i].responses # <<>>
     /\ tasks'[i].responses[1].status = "success") =>
      /\ tabsState'[tasks[i].tab] # 0
      /\ tasks'[i].responses[1].payload.describe
           = objs'[tabsState'[tasks[i].tab]].sessionId
\* C31: a description fetched with one credential is never served from the
\* cache after the tab's credential changed: a replaced session starts with
\* an empty cache, and a fetch that completes after the replacement writes
\* to the cache of the session it started on.
C31_NoStaleDescribe == []C31_OwnCredential /\ [][C31_Step]_vars
C31_Witness ==
  \E i \in TaskIds, t \in Tabs :
    /\ tasks[i] # Idle /\ tasks[i].pc = "done" /\ tasks[i].tab = t
    /\ tasks[i].type = "DESCRIBE_SOBJECT" /\ tasks[i].remote = 1
    /\ tasks[i].responses # <<>> /\ tasks[i].responses[1].status = "success"
    /\ tabsState[t] # 0
    /\ tasks[i].responses[1].payload.describe # objs[tabsState[t]].sessionId
    /\ \A n \in SObjectNames : objs[tabsState[t]].sObjectDescribeCache[n] = Absent

\* the message of the exception a handler raises before its first await,
\* "" when it raises none
C32_Raises(tk) ==
  LET p == tk.payload IN
  CASE tk.type = "UPDATE_RECORD" ->
         IF p = Undef THEN "TypeError"
         ELSE IF p.sObjectName = "" \/ ~p.hasId THEN "Invalid payload for update."
         ELSE ""
    [] tk.type = "DESCRIBE_SOBJECT" ->
         IF p = Undef THEN "TypeError"
         ELSE IF p.sObjectName = "" THEN "sObjectName is required."
         ELSE ""
    [] OTHER -> ""
\* a session-dependent operation that found a session and has completed is
\* answered exactly once; when its handler raised before any remote call the
\* answer is the error with the exception's message
C32_Answered ==
  \A i \in TaskIds :
    (/\ FromTab(i) /\ tasks[i].type \in SessionOps
     /\ tasks[i].session = "yes" /\ tasks[i].pc = "done") =>
      /\ ~tasks[i].escaped
      /\ Len(tasks[i].responses) = 1
      /\ C32_Raises(tasks[i]) # "" =>
           /\ tasks[i].responses[1] = ErrorResponse(C32_Raises(tasks[i]), "")
           /\ tasks[i].remote = 0
      /\ (tasks[i].type = "GET_RECORD" /\ tasks[i].remote = 0) =>
           tasks[i].responses[1] \in
             {ErrorResponse("Not a standard record page.", ""),
              ErrorResponse("No tab with id", "")}
\* the step in which a handler that was running ends: it answers once, with
\* a success or with the error of what it awaited, and the tab's session
\* entry stays as it was
C32_Step ==
  \A i \in TaskIds :
    (/\ tasks[i] # Idle /\ tasks[i].pc \in {"getTab", "remote", "remote2"}
     /\ tasks'[i] # Idle /\ tasks'[i].pc = "done") =>
      /\ tabsState' = tabsState
      /\ Len(tasks'[i].responses) = 1
      /\ \/ tasks'[i].responses[1].status = "success"
         \/ tasks'[i].responses[1] \in
              {ErrorResponse(m, "") :
                 m \in {"remote error", "TypeError", "No tab with id",
                        "Not a standard record page."}}
\* C32: an exception a session-dependent handler raises, or a rejection of
\* what it awaits, gives exactly one response, the error with the
\* exception's message and never a success, and the tab's session entry
\* stays in place.
C32_HandlerErrors == []C32_Answered /\ [][C32_Step]_vars
C32_Witness ==
  \E i \in TaskIds :
    /\ FromTab(i) /\ tasks[i].type = "UPDATE_RECORD" /\ tasks[i].pc = "done"
    /\ tasks[i].session = "yes"
    /\ tasks[i].responses = <<ErrorResponse("Invalid payload for update.", "")>>
    /\ tabsState[tasks[i].tab] # 0

\* invocations i and j describe the same name on the same session and both
\* found the cache without it
C33_BothMissed(i, j) ==
  /\ i # j
  /\ tasks[i] # Idle /\ tasks[j] # Idle
  /\ tasks[i].type = "DESCRIBE_SOBJECT" /\ tasks[j].type = "DESCRIBE_SOBJECT"
  /\ tasks[i].remote = 1 /\ tasks[j].remote = 1
  /\ tasks[i].state = tasks[j].state
  /\ tasks[i].payload = tasks[j].payload
C33_Step ==
  \A i, j \in TaskIds :
    (/\ C33_BothMissed(i, j)
     /\ tasks[i].pc = "remote"
     /\ tasks'[i] # Idle /\ tasks'[i].pc = "done"
     /\ tasks'[i].responses # <<>>
     /\ tasks'[i].responses[1].status = "success") =>
      /\ Len(tasks'[i].responses) = 1
      /\ tasks'[i].responses[1].payload.describe \in DescribeResults
      /\ objs'[tasks[i].state] # Free =>
           objs'[tasks[i].state].sObjectDescribeCache[tasks[i].payload.sObjectName]
             = tasks'[i].responses[1].payload.describe
      /\ tasks'[j] = tasks[j]
\* C33: two describes of one name on one session that both miss the cache
\* before either fetch completes both fetch and are both answered; after each
\* successful fetch the cache holds that fetch's result under the name, so it
\* ends with the value written last.
C33_LastWriteWins == [][C33_Step]_vars
C33_Witness ==
  \E i, j \in TaskIds :
    /\ C33_BothMissed(i, j)
    /\ tasks[i].pc = "done" /\ tasks[j].pc = "done"
    /\ tasks[i].responses = <<SuccessResponse([describe |-> "v1"])>>
    /\ tasks[j].responses = <<SuccessResponse([describe |-> "v2"])>>
    /\ tabsState[tasks[i].tab] = tasks[i].state
    /\ objs[tasks[i].state].sObjectDescribeCache[tasks[i].payload.sObjectName] = "v2"

\* the step in which initializeTabState returns and the describe handler
\* starts on the tab's session: a name in the cache is answered from it
\* without a remote call, any other name starts one remote describe
C34_Start(i) ==
  (/\ tasks[i] # Idle /\ tasks[i].pc \in {"tabsGet", "cookiesGet"}
   /\ tasks[i].type = "DESCRIBE_SOBJECT"
   /\ tasks'[i] # Idle /\ tasks'[i].pc \notin {"tabsGet", "cookiesGet"}
   /\ tabsState'[tasks[i].tab] # 0) =>
    LET n == tasks[i].payload.sObjectName
        \* the TabState the handler is given; the step leaves its cache as
        \* the handler found it
        cache == IF tabsState'[tasks[i].tab] = tabsState[tasks[i].tab]
                 THEN objs[tabsState[tasks[i].tab]].sObjectDescribeCache
                 ELSE objs'[tabsState'[tasks[i].tab]].sObjectDescribeCache
    IN IF cache[n] # Absent
       THEN /\ tasks'[i].pc = "done"
            /\ tasks'[i].remote = 0
            /\ tasks'[i].responses = <<SuccessResponse([describe |-> cache[n]])>>
            /\ objs'[tabsState'[tasks[i].tab]].sObjectDescribeCache = cache
       ELSE /\ tasks'[i].pc = "remote"
            /\ tasks'[i].remote = 1
            /\ tasks'[i].responses = <<>>
\* the step in which the fetch settles: a result is stored under the name
\* and returned, a failure leaves the cache as it was
C34_Settle(i) ==
  (/\ tasks[i] # Idle /\ tasks[i].pc = "remote"
   /\ tasks[i].type = "DESCRIBE_SOBJECT"
   /\ tasks'[i] # Idle /\ tasks'[i].pc = "done"
   /\ objs'[tasks[i].state] # Free) =>
    LET n == tasks[i].payload.sObjectName
        old == objs[tasks[i].state].sObjectDescribeCache
        new == objs'[tasks[i].state].sObjectDescribeCache
        r == tasks'[i].responses[1]
    IN /\ Len(tasks'[i].responses) = 1
       /\ tasks'[i].remote = 1
       /\ IF r.status = "success"
          THEN /\ new[n] = r.payload.describe
               /\ \A m \in SObjectNames \ {n} : new[m] = old[m]
          ELSE new = old
C34_Step == \A i \in TaskIds : C34_Start(i) /\ C34_Settle(i)
\* C34: DESCRIBE_SOBJECT for a cached name returns the cached value without
\* a remote call; for any other name it performs one remote describe, stores
\* the result under that name only when the fetch succeeded and returns it.
C34_DescribeCache == [][C34_Step]_vars
C34_Witness ==
  \E i \in TaskIds :
    /\ tasks[i] # Idle /\ tasks[i].type = "DESCRIBE_SOBJECT"
    /\ tasks[i].pc = "done" /\ tasks[i].remote = 0
    /\ tasks[i].responses # <<>>
    /\ tasks[i].responses[1].status = "success"

\* C35: when the response callback is given a body for a tracked request
\* whose form body has no message field or whose message has no actions
\* list, it removes the pending entry, starts no save and raises no
\* exception.
C35_Step ==
  \A k \in 1..Len(bodyCalls) :
    LET entry == requestDataMap[bodyCalls[k].requestId] IN
    (/\ Len(bodyCalls') = Len(bodyCalls) - 1
     /\ entry # NoEntry
     /\ entry.postData.message # "batch"
     /\ unwrapped'.k # "none"
     /\ unwrapped'.requestId = bodyCalls[k].requestId
     /\ ~unwrapped'.failed) =>
      /\ requestDataMap'[bodyCalls[k].requestId] = NoEntry
      /\ tasks' = tasks
      /\ unwrapped'.k # "raised"
C35_ToleratesMissingActions == [][C35_Step]_vars

\* C36: no trim over-evicts. A step that deletes records leaves at least
\* maxRequestEntries of them, and deletes no record that fewer than
\* maxRequestEntries other stored records are as recent as (records of one
\* batch have the same requestedAt).
C36_Step ==
  LET deleted == store \ store' IN
  (store' \subseteq store /\ deleted # {}) =>
    /\ Cardinality(store') >= maxRequestEntries
    /\ \A x \in deleted :
         Cardinality({y \in store \ {x} : y.requestedAt >= x.requestedAt})
           >= maxRequestEntries
C36_NoOverEviction == [][C36_Step]_vars
C36_Witness ==
  /\ \A i \in TaskIds : tasks[i] = Idle
  /\ transactions = <<>>
  /\ \A r \in 1..RaceReqs : network[r] # NoRequest /\ network[r].state = "responded"
  /\ unwrapped # NoUnwrap
  /\ Len(unwrapped.calls) = MaxBatch
  /\ maxRequestEntries = 2
  /\ Cardinality(store) = 2
  /\ \A c \in store : \E n \in 1..Len(unwrapped.calls) : c = unwrapped.calls[n]
  /\ \E n \in 1..Len(unwrapped.calls) : unwrapped.calls[n] \notin store

\* C37: list(tabId) answers with exactly the stored records of that tab and
\* listAll() with every stored record, each record once and ordered by
\* requestedAt descending (newest first), and neither changes the store.
C37_Listed(q, s) ==
  /\ {q[n] : n \in 1..Len(q)} = s
  /\ Len(q) = Cardinality(s)
  /\ \A m, n \in 1..Len(q) : m < n => q[m].requestedAt >= q[n].requestedAt
C37_Step ==
  \A i \in TaskIds :
    (/\ tasks[i] # Idle
     /\ tasks[i].pc = "db"
     /\ tasks[i].type \in ListMessages
     /\ tasks'[i] # tasks[i]
     /\ tasks'[i] # Idle
     /\ Len(tasks'[i].responses) = 1
     /\ tasks'[i].responses[1].status = "success") =>
      /\ store' = store
      /\ C37_Listed(tasks'[i].responses[1].payload.calls,
                    IF tasks[i].type = "LIST_API_CALLS"
                    THEN {r \in store : r.tabId = tasks[i].tab}
                    ELSE store)
C37_ListsNewestFirst == [][C37_Step]_vars
C37_Witness ==
  /\ store = ListedCalls
  /\ \E i, j \in TaskIds :
       /\ tasks[i] # Idle /\ tasks[i].type = "LIST_API_CALLS"
       /\ tasks[i].pc = "done"
       /\ Len(tasks[i].responses) = 1
       /\ tasks[i].responses[1].status = "success"
       /\ Len(tasks[i].responses[1].payload.calls) = 3
       /\ tasks[j] # Idle /\ tasks[j].type = "LIST_ALL_API_CALLS"
       /\ tasks[j].pc = "done"
       /\ Len(tasks[j].responses) = 1
       /\ tasks[j].responses[1].status = "success"
       /\ Len(tasks[j].responses[1].payload.calls) = 4

\* C38: findPaths is cycle-safe and bounded: it expands each object at most
\* once and does not descend beyond a fixed depth. The depth is that of the
\* object on top, the root being at depth 0; a fixed depth that bounds the
\* traversal is below that of the last object of a chain through every
\* object of the graph.
C38_BoundedTraversal ==
  /\ \A o \in Objects : walk.expanded[o] <= 1
  /\ Len(walk.stack) - 1 < MaxObjects - 1
====
